---- MODULE Spec2Model ----
(***************************************************************************)
(* Digital-twin simulation engine: the simulation service                  *)
(* (app/services/simulation_service.py), the module-level communication    *)
(* service it shares (app/services/communication_service.py) and the       *)
(* scheduler and input gathering of the step loop.                         *)
(*                                                                         *)
(* The service runs on one asyncio event loop: the code between two real   *)
(* suspensions of a coroutine is one atomic action.  Awaiting a coroutine  *)
(* that returns or raises before it suspends does not yield to the loop.   *)
(*                                                                         *)
(* Numbers are fixed-point, in tenths (0.5 is 5, 50.0 is 500); Python      *)
(* values are tagged records so that a number, a string and None can meet  *)
(* in one dictionary.                                                      *)
(***************************************************************************)
EXTENDS Integers, Sequences, FiniteSets, TLC

VARIABLES
    next_simulation_id,     \* _next_simulation_id
    active_simulations,     \* _active_simulations: simulation id -> SimulationState
    communication_service,  \* the module-level CommunicationService instance
    loop_task,              \* per simulation: the _run_simulation_loop task
    pending_disconnects,    \* disconnect_all tasks created by stop_simulation, not yet run
    cycle_warning,          \* per simulation: the cycle_nodes printed by _get_execution_order
    last_stop,              \* what the stop_simulation call of the latest step found and returned; None after any other step
    status_history,         \* per simulation: the values its status has taken, in order
    setup_failures,         \* per allocated id: the setup steps that failed in the start that took it
    sched_in,               \* scheduler check: the snapshot handed to _get_execution_order
    sched_out,              \* scheduler check: what it returned
    tick_in,                \* gather check: a simulation state at the top of a tick
    tick_out,               \* gather check: the inputs gathered for every component
    tick_result,            \* tick check: what one whole tick produced
    bridge_in,              \* bridge check: a service, bindings and what the servers will do
    bridge_out,             \* bridge check: the service and the start after initialize_connections
    callbacks,              \* the data changes delivered to SubHandler so far, in order
    returned,               \* what the latest read_values_from_external returned, and when
    coroutines,             \* the initialize_connections and disconnect_all calls in flight
    clients,                \* every asyncua Client created: its url and whether it is connected
    teardown_in,            \* teardown check: FMU instances, the exit path and what the FMUs will do
    teardown_out            \* teardown check: the calls made on the instances and what is left

lifecycle_vars == <<next_simulation_id, active_simulations, communication_service,
                    loop_task, pending_disconnects, cycle_warning, last_stop, status_history,
                    setup_failures>>
sched_vars == <<sched_in, sched_out>>
tick_vars == <<tick_in, tick_out, tick_result>>
bridge_vars == <<bridge_in, bridge_out>>
concurrency_vars == <<callbacks, returned, coroutines, clients>>
teardown_vars == <<teardown_in, teardown_out>>
vars == <<lifecycle_vars, sched_vars, tick_vars, bridge_vars, concurrency_vars, teardown_vars>>

----------------------------------------------------------------------------
(* Python values *)

Num(n) == [num |-> n]
Str(s) == [str |-> s]
None == [none |-> TRUE]
IsNum(v) == DOMAIN v = {"num"}

\* dict.get(key): None when the key is absent
Get(d, k) == IF k \in DOMAIN d THEN d[k] ELSE None
\* dict.get(key, default)
GetOr(d, k, default) == IF k \in DOMAIN d THEN d[k] ELSE default
EmptyDict == [k \in {} |-> None]
\* d[k] = v on a dictionary
Put(d, k, v) == [x \in DOMAIN d \cup {k} |-> IF x = k THEN v ELSE d[x]]
\* d.update(e)
Update(d, e) == [x \in DOMAIN d \cup DOMAIN e |-> IF x \in DOMAIN e THEN e[x] ELSE d[x]]

\* a port that is None or the empty string is falsy
NoPort == ""

Min(a, b) == IF a < b THEN a ELSE b
Max(a, b) == IF a > b THEN a ELSE b

RECURSIVE SetIter(_)
\* Iteration order of a Python set of small non-negative ints (CPython: hash(i) = i,
\* one slot per id while the ids are below the table size): ascending.
SetIter(S) ==
    IF S = {} THEN <<>>
    ELSE LET m == CHOOSE x \in S : \A y \in S : x <= y
         IN <<m>> \o SetIter(S \ {m})

Contains(seq, x) == \E k \in 1..Len(seq) : seq[k] = x
Range(seq) == {seq[k] : k \in 1..Len(seq)}

----------------------------------------------------------------------------
(* _get_execution_order: Kahn's algorithm with the snapshot-order fallback *)

ComponentIds(components) == {components[k].id : k \in 1..Len(components)}

RECURSIVE BuildGraph(_, _, _, _, _)
\* lines 272-280: one pass over the connections; ports are not looked at
BuildGraph(connections, k, component_ids, adj, in_degree) ==
    IF k > Len(connections) THEN [adj |-> adj, in_degree |-> in_degree]
    ELSE LET source_id == connections[k].source_component_id
             target_id == connections[k].target_component_id
         IN IF /\ source_id \in component_ids
               /\ target_id \in component_ids
               /\ ~Contains(adj[source_id], target_id)
            THEN BuildGraph(connections, k + 1, component_ids,
                            [adj EXCEPT ![source_id] = Append(@, target_id)],
                            [in_degree EXCEPT ![target_id] = @ + 1])
            ELSE BuildGraph(connections, k + 1, component_ids, adj, in_degree)

RECURSIVE Relax(_, _, _, _)
\* lines 290-293: for v in adj[u]
Relax(vs, k, queue, in_degree) ==
    IF k > Len(vs) THEN [queue |-> queue, in_degree |-> in_degree]
    ELSE LET v == vs[k]
             d == [in_degree EXCEPT ![v] = @ - 1]
         IN Relax(vs, k + 1, IF d[v] = 0 THEN Append(queue, v) ELSE queue, d)

RECURSIVE Kahn(_, _, _, _)
\* lines 286-293: while queue
Kahn(queue, sorted_order, adj, in_degree) ==
    IF queue = <<>> THEN [sorted_order |-> sorted_order, in_degree |-> in_degree]
    ELSE LET u == Head(queue)
             r == Relax(adj[u], 1, Tail(queue), in_degree)
         IN Kahn(r.queue, Append(sorted_order, u), adj, r.in_degree)

SnapshotOrder(components) == [k \in 1..Len(components) |-> components[k].id]

\* a fallback that keeps what Kahn's loop sorted and drops the components left over
KeepSorted(components, sorted_order) == sorted_order

\* a fallback that appends the components left over, by ascending id
SortedThenRest(components, sorted_order) ==
    sorted_order \o SetIter(ComponentIds(components) \ Range(sorted_order))

\* the fallback of lines 296-302
CycleFallback(components, sorted_order) == SnapshotOrder(components)

GetExecutionOrder(components, connections) ==
    LET component_ids == ComponentIds(components)
        g == BuildGraph(connections, 1, component_ids,
                        [c \in component_ids |-> <<>>], [c \in component_ids |-> 0])
        queue == SelectSeq(SetIter(component_ids), LAMBDA c : g.in_degree[c] = 0)
        r == Kahn(queue, <<>>, g.adj, g.in_degree)
    IN IF Len(r.sorted_order) # Cardinality(component_ids)
       THEN [order |-> CycleFallback(components, r.sorted_order),
             cycle_nodes |-> {c \in component_ids : r.in_degree[c] > 0}]
       ELSE [order |-> r.sorted_order, cycle_nodes |-> {}]

----------------------------------------------------------------------------
(* Component kernels (the type dispatch of the step loop).  time_step is 1 s. *)
(* Config values are numbers; a threshold may also be a string, on which the *)
(* comparison with a numeric input raises TypeError.                         *)

DefaultSetpoint == 500      \* 50.0
DefaultHeatingRate == 50    \* 5.0
DefaultCoolingRate == 10    \* 1.0
DefaultAmbientTemp == 200   \* 20.0
DefaultThreshold == 5       \* 0.5
DefaultAmplitude == 10      \* 1.0
DefaultOffset == 0          \* 0.0
DefaultFrequency == 1       \* 0.1 Hz
FlowOpen == 10              \* 1.0
FlowClosed == 0             \* 0.0
fmi2OK == 0

Returned(state) == [raised |-> FALSE, state |-> state]
Raised == [raised |-> TRUE, state |-> EmptyDict]

\* sin(2*pi*k/10) in tenths, rounded: the sensor's sine on the grid the model's
\* whole-second clock and tenth-hertz frequencies reach
SinTable == <<0, 6, 10, 10, 6, 0, -6, -10, -10, -6>>
Sin(frequency, t) == SinTable[((frequency * t) % 10) + 1]

\* rounding division by 10 of a product of two tenths
Tenths(x) == IF x >= 0 THEN (x + 5) \div 10 ELSE -((-x + 5) \div 10)

SensorKernel(config, current_time) ==
    LET frequency == GetOr(config, "frequency", Num(DefaultFrequency))
        amplitude == GetOr(config, "amplitude", Num(DefaultAmplitude))
        offset == GetOr(config, "offset", Num(DefaultOffset))
    IN IF ~(IsNum(frequency) /\ IsNum(amplitude) /\ IsNum(offset)) THEN Raised
       ELSE Returned("value" :>
                Num(offset.num + Tenths(amplitude.num * Sin(frequency.num, current_time))))

\* a heater that cools down to the ambient temperature whatever its setpoint
HeaterKernelAmbientFloor(config, inputs, previous_step_state) ==
    LET config_setpoint == GetOr(config, "setpoint", Num(DefaultSetpoint))
        heating_rate == GetOr(config, "heating_rate", Num(DefaultHeatingRate))
        cooling_rate == GetOr(config, "cooling_rate", Num(DefaultCoolingRate))
        ambient_temp == GetOr(config, "ambient_temp", Num(DefaultAmbientTemp))
        initial_temp == GetOr(config, "initial_temp", ambient_temp)
        current_temp == GetOr(previous_step_state, "temperature", initial_temp)
        input_setpoint == Get(inputs, "setpoint")
        target_setpoint == IF IsNum(input_setpoint) THEN input_setpoint ELSE config_setpoint
    IN IF current_temp.num < target_setpoint.num
       THEN Returned("temperature" :>
                Num(Min(current_temp.num + heating_rate.num, target_setpoint.num)))
       ELSE IF current_temp.num > target_setpoint.num
       THEN Returned("temperature" :>
                Num(Max(current_temp.num - cooling_rate.num, ambient_temp.num)))
       ELSE Returned("temperature" :> current_temp)

HeaterKernel(config, inputs, previous_step_state) ==
    LET config_setpoint == GetOr(config, "setpoint", Num(DefaultSetpoint))
        heating_rate == GetOr(config, "heating_rate", Num(DefaultHeatingRate))
        cooling_rate == GetOr(config, "cooling_rate", Num(DefaultCoolingRate))
        ambient_temp == GetOr(config, "ambient_temp", Num(DefaultAmbientTemp))
        initial_temp == GetOr(config, "initial_temp", ambient_temp)
        current_temp == GetOr(previous_step_state, "temperature", initial_temp)
        input_setpoint == Get(inputs, "setpoint")
        target_setpoint == IF IsNum(input_setpoint) THEN input_setpoint ELSE config_setpoint
    IN IF ~(IsNum(current_temp) /\ IsNum(target_setpoint)) THEN Raised
       ELSE IF current_temp.num < target_setpoint.num
       THEN IF ~IsNum(heating_rate) THEN Raised
            ELSE Returned("temperature" :>
                     Num(Min(current_temp.num + heating_rate.num, target_setpoint.num)))
       ELSE IF current_temp.num > target_setpoint.num
       THEN IF ~(IsNum(cooling_rate) /\ IsNum(ambient_temp)) THEN Raised
            ELSE LET potential_temp == current_temp.num - cooling_rate.num
                     floor_temp == Max(ambient_temp.num,
                                       IF target_setpoint.num > ambient_temp.num
                                       THEN target_setpoint.num ELSE ambient_temp.num)
                 IN Returned("temperature" :> Num(Max(potential_temp, floor_temp)))
       ELSE Returned("temperature" :> current_temp)

ActuatorKernel(config, inputs) ==
    LET threshold == GetOr(config, "threshold", Num(DefaultThreshold))
        input_command == Get(inputs, "command")
    IN IF ~IsNum(input_command) THEN Returned("status" :> Str("Off"))
       ELSE IF ~IsNum(threshold) THEN Raised
       ELSE Returned("status" :>
                IF input_command.num >= threshold.num THEN Str("On") ELSE Str("Off"))

ValveKernel(config, inputs) ==
    LET threshold == GetOr(config, "threshold", Num(DefaultThreshold))
        input_signal == Get(inputs, "ControlSignal")
    IN IF ~IsNum(input_signal) THEN Returned("Flow" :> Num(FlowClosed))
       ELSE IF ~IsNum(threshold) THEN Raised
       ELSE Returned("Flow" :>
                IF input_signal.num > threshold.num THEN Num(FlowOpen) ELSE Num(FlowClosed))

ErrorDoStep(code) == [str |-> "error_doStep_", code |-> code]

\* What the FMU does in one step is the environment's: doStep returns a status, and
\* on fmi2OK the output variable y is read; or a call into the FMU raises: the
\* setting of an input (caught at lines 521-524), the reading of y (caught at
\* lines 559-560), or another call such as doStep (caught at lines 562-564).
FmuOutcomes == {[kind |-> "status", code |-> fmi2OK, y |-> Num(10)],
                [kind |-> "status", code |-> 3, y |-> None],
                [kind |-> "raise", code |-> 0, y |-> None],
                [kind |-> "set_raises", code |-> fmi2OK, y |-> Num(10)],
                [kind |-> "get_raises", code |-> fmi2OK, y |-> None]}

\* lines 494-564
FmuKernel(has_instance, outcome) ==
    IF ~has_instance THEN Returned("status" :> Str("error_fmu_not_found"))
    ELSE IF outcome.kind = "raise" THEN Returned("status" :> Str("error_fmu_execution"))
    ELSE IF outcome.code # fmi2OK THEN Returned("status" :> ErrorDoStep(outcome.code))
    ELSE IF outcome.kind = "get_raises" THEN Returned(EmptyDict)
    ELSE Returned("y" :> outcome.y)

Kernel(comp, inputs, previous_step_state, current_time, has_instance, outcome) ==
    LET comp_config == IF comp.config = None THEN EmptyDict ELSE comp.config
    IN CASE comp.type = "Sensor" -> SensorKernel(comp_config, current_time)
         [] comp.type = "Heater" -> HeaterKernel(comp_config, inputs, previous_step_state)
         [] comp.type = "Actuator" -> ActuatorKernel(comp_config, inputs)
         [] comp.type = "Valve" -> ValveKernel(comp_config, inputs)
         [] comp.type = "FMU" -> FmuKernel(has_instance, outcome)
         [] OTHER -> Returned("status" :> Str("unknown_type"))

----------------------------------------------------------------------------
(* One tick of _run_simulation_loop *)

RECURSIVE GatherInternal(_, _, _, _, _)
\* lines 361-370: inputs from internal connections, read from the previous step
GatherInternal(connections, k, component_states, comp_id, inputs) ==
    IF k > Len(connections) THEN inputs
    ELSE LET conn == connections[k]
             source_state_previous_step ==
                 GetOr(component_states, conn.source_component_id, EmptyDict)
             value == Get(source_state_previous_step, conn.source_port)
         IN IF /\ conn.target_component_id = comp_id
               /\ conn.target_port # NoPort
               /\ conn.source_port # NoPort
               /\ value # None
            THEN GatherInternal(connections, k + 1, component_states, comp_id,
                                Put(inputs, conn.target_port, value))
            ELSE GatherInternal(connections, k + 1, component_states, comp_id, inputs)

\* an overlay without the None test
OverlayAlways(inputs, target_port_name, external_value) ==
    Put(inputs, target_port_name, external_value)

\* lines 381-384: the external value is laid over the input unless it is None
Overlay(inputs, target_port_name, external_value) ==
    IF external_value # None THEN Put(inputs, target_port_name, external_value) ELSE inputs

RECURSIVE GatherExternal(_, _, _, _, _)
\* lines 376-384: inputs from 'read' bindings of this component
GatherExternal(bindings, k, external_inputs, comp_id, inputs) ==
    IF k > Len(bindings) THEN inputs
    ELSE LET binding == bindings[k]
         IN IF /\ binding.direction = "read"
               /\ binding.component_id = comp_id
               /\ binding.component_port # NoPort
            THEN GatherExternal(bindings, k + 1, external_inputs, comp_id,
                                Overlay(inputs, binding.component_port,
                                        Get(external_inputs, binding.id)))
            ELSE GatherExternal(bindings, k + 1, external_inputs, comp_id, inputs)

\* lines 358-386
GatherInputs(sim, simulation_mode, external_inputs, comp_id) ==
    LET internal == GatherInternal(sim.connections, 1, sim.component_states, comp_id,
                                   EmptyDict)
    IN IF simulation_mode = "hil" /\ sim.communication_bindings # <<>>
       THEN GatherExternal(sim.communication_bindings, 1, external_inputs, comp_id, internal)
       ELSE internal

ComponentOf(components, comp_id) ==
    LET k == CHOOSE j \in 1..Len(components) :
                 /\ components[j].id = comp_id
                 /\ \A h \in (j + 1)..Len(components) : components[h].id # comp_id
    IN components[k]

RECURSIVE ExecuteComponentsSameTick(_, _, _, _, _, _, _)
\* a loop whose components read what was produced earlier in the same tick
ExecuteComponentsSameTick(sim, simulation_mode, external_inputs, current_time, fmu_env, k, next_component_states) ==
    IF k > Len(sim.execution_order)
    THEN [raised |-> FALSE, next_component_states |-> next_component_states]
    ELSE LET comp_id == sim.execution_order[k]
             comp_info == ComponentOf(sim.components, comp_id)
             inputs == GatherInputs([sim EXCEPT !.component_states =
                                                    Update(@, next_component_states)],
                                    simulation_mode, external_inputs, comp_id)
             r == Kernel(comp_info, inputs,
                         GetOr(sim.component_states, comp_id, EmptyDict),
                         current_time, comp_id \in sim.fmu_instances,
                         GetOr(fmu_env, comp_id, CHOOSE o \in FmuOutcomes : TRUE))
         IN IF r.raised
            THEN [raised |-> TRUE, next_component_states |-> next_component_states]
            ELSE ExecuteComponentsSameTick(sim, simulation_mode, external_inputs,
                                           current_time, fmu_env, k + 1,
                                           Put(next_component_states, comp_id, r.state))

RECURSIVE ExecuteComponents(_, _, _, _, _, _, _)
\* lines 348-576: for comp_id in sim.execution_order.  fmu_env gives, for every FMU
\* component, what its FMU does in this step.
ExecuteComponents(sim, simulation_mode, external_inputs, current_time, fmu_env, k, next_component_states) ==
    IF k > Len(sim.execution_order)
    THEN [raised |-> FALSE, next_component_states |-> next_component_states]
    ELSE LET comp_id == sim.execution_order[k]
         IN IF comp_id \notin ComponentIds(sim.components)
            THEN ExecuteComponents(sim, simulation_mode, external_inputs, current_time,
                                   fmu_env, k + 1, next_component_states)
            ELSE LET comp_info == ComponentOf(sim.components, comp_id)
                     inputs == GatherInputs(sim, simulation_mode, external_inputs, comp_id)
                     r == Kernel(comp_info, inputs,
                                 GetOr(sim.component_states, comp_id, EmptyDict),
                                 current_time, comp_id \in sim.fmu_instances,
                                 GetOr(fmu_env, comp_id, CHOOSE o \in FmuOutcomes : TRUE))
                 IN IF r.raised
                    THEN [raised |-> TRUE, next_component_states |-> next_component_states]
                    ELSE ExecuteComponents(sim, simulation_mode, external_inputs,
                                           current_time, fmu_env, k + 1,
                                           Put(next_component_states, comp_id, r.state))

RECURSIVE BuildWriteBatch(_, _, _, _)
\* lines 584-595: for binding in sim.communication_bindings; states are the
\* component states the values are taken from
BuildWriteBatch(bindings, k, states, values_to_write_external) ==
    IF k > Len(bindings) THEN values_to_write_external
    ELSE LET binding == bindings[k]
             value_to_write == Get(GetOr(states, binding.component_id, EmptyDict),
                                   binding.component_port)
         IN IF /\ binding.direction = "write"
               /\ binding.component_port # NoPort
               /\ value_to_write # None
            THEN BuildWriteBatch(bindings, k + 1, states,
                                 Put(values_to_write_external, binding.id, value_to_write))
            ELSE BuildWriteBatch(bindings, k + 1, states, values_to_write_external)

\* a batch taken from the states of the previous tick
ValuesFromPreviousStates(sim, simulation_mode, next_component_states) ==
    IF simulation_mode = "hil" /\ sim.comm_service /\ sim.communication_bindings # <<>>
    THEN BuildWriteBatch(sim.communication_bindings, 1, sim.component_states, EmptyDict)
    ELSE EmptyDict

\* lines 582-599: the batch handed to write_values_to_external, after the component
\* loop; nothing is handed over in pure mode or without bindings
ValuesToWriteExternal(sim, simulation_mode, next_component_states) ==
    IF simulation_mode = "hil" /\ sim.comm_service /\ sim.communication_bindings # <<>>
    THEN BuildWriteBatch(sim.communication_bindings, 1, next_component_states, EmptyDict)
    ELSE EmptyDict

----------------------------------------------------------------------------
(* The persistence collaborator: the machine models a start can load.      *)

Component(id, type, config) == [id |-> id, type |-> type, config |-> config]
Connection(source, source_port, target, target_port) ==
    [source_component_id |-> source, source_port |-> source_port,
     target_component_id |-> target, target_port |-> target_port]
\* a communication_bindings row (app/models/communication_binding.py)
BindingRow(id, component_id, component_port, direction, address) ==
    [id |-> id, component_id |-> component_id, component_port |-> component_port,
     direction |-> direction, protocol |-> "OPCUA", address |-> address, config |-> None]

\* CommunicationBindingSchema.model_validate(row): the declared fields and no other
BindingFields == {"id", "machine_model_id", "component_id", "component_port",
                  "direction", "protocol", "address", "config"}
CommunicationBindingSchema(row) ==
    [f \in DOMAIN row \cap BindingFields |-> row[f]]

HeaterConfig == ("setpoint" :> Num(20)) @@ ("heating_rate" :> Num(10))
                @@ ("ambient_temp" :> Num(0)) @@ ("initial_temp" :> Num(0))

MachineModels ==
    <<  \* 1: a heater driving an actuator
        [components |-> <<Component(1, "Heater", HeaterConfig),
                          Component(2, "Actuator", "threshold" :> Num(15))>>,
         connections |-> <<Connection(1, "temperature", 2, "command")>>,
         bindings |-> <<>>],
        \* 2: a two-cycle stored against the order of the ids, with bindings
        [components |-> <<Component(2, "Actuator", "threshold" :> Num(15)),
                          Component(1, "Heater", HeaterConfig)>>,
         connections |-> <<Connection(1, "temperature", 2, "command"),
                           Connection(2, "status", 1, "setpoint")>>,
         bindings |-> <<BindingRow(1, 1, "setpoint", "read", "ns=2;s=Sp"),
                        BindingRow(2, 2, "status", "write", "ns=2;s=St")>>],
        \* 3: the second FMU has no fmu_path
        [components |-> <<Component(1, "FMU", "fmu_path" :> Str("good.fmu")),
                          Component(2, "FMU", None)>>,
         connections |-> <<>>,
         bindings |-> <<>>],
        \* 4: the second FMU's archive cannot be loaded
        [components |-> <<Component(1, "FMU", "fmu_path" :> Str("good.fmu")),
                          Component(2, "FMU", "fmu_path" :> Str("bad.fmu"))>>,
         connections |-> <<>>,
         bindings |-> <<>>],
        \* 5: an FMU driving a valve
        [components |-> <<Component(1, "FMU", "fmu_path" :> Str("good.fmu")),
                          Component(2, "Valve", None)>>,
         connections |-> <<Connection(1, "y", 2, "ControlSignal")>>,
         bindings |-> <<>>],
        \* 6: an actuator whose threshold is a string, in a cycle with a tail and
        \*    a connection from a component of another model
        [components |-> <<Component(3, "Actuator", "threshold" :> Str("high")),
                          Component(1, "Heater", HeaterConfig),
                          Component(2, "Gearbox", None)>>,
         connections |-> <<Connection(1, "temperature", 2, "in"),
                           Connection(2, NoPort, 1, NoPort),
                           Connection(1, "temperature", 3, "command"),
                           Connection(7, "value", 3, "command")>>,
         bindings |-> <<>>] >>

MachineModelIds == 1..Len(MachineModels)
SimulationModes == {"pure", "hil"}

----------------------------------------------------------------------------
(* CommunicationService *)

NewCommunicationService ==
    [opcua_clients |-> EmptyDict, opcua_subscriptions |-> EmptyDict,
     monitored_items |-> EmptyDict,
     binding_values |-> EmptyDict, node_id_to_binding_id_map |-> EmptyDict,
     read_bindings |-> <<>>, write_bindings |-> <<>>]

\* a binding type that declares endpoint_url
EndpointUrlDeclared(b) == TRUE

\* b.endpoint_url on a binding: AttributeError unless the object has the attribute
HasEndpointUrl(b) == "endpoint_url" \in DOMAIN b

\* initialize_connections, lines 57-68.  The comprehension of line 63 reads
\* endpoint_url of every binding, and the bindings a start loads are
\* CommunicationBindingSchema objects: with one binding or more the call raises
\* there, before its first suspension, and lines 70-155 are not reached.
InitializeConnections(service, bindings) ==
    LET cleared == [service EXCEPT
                       !.binding_values = EmptyDict,
                       !.node_id_to_binding_id_map = EmptyDict,
                       !.read_bindings = SelectSeq(bindings, LAMBDA b : b.direction = "read"),
                       !.write_bindings = SelectSeq(bindings, LAMBDA b : b.direction = "write")]
    IN [service |-> cleared,
        raised |-> \E k \in 1..Len(bindings) : ~HasEndpointUrl(bindings[k])]

\* disconnect_all, lines 161-189, with no client to disconnect: nothing is awaited
DisconnectAll(service) ==
    [service EXCEPT !.opcua_clients = EmptyDict, !.opcua_subscriptions = EmptyDict,
                    !.monitored_items = EmptyDict,
                    !.binding_values = EmptyDict, !.node_id_to_binding_id_map = EmptyDict,
                    !.read_bindings = <<>>, !.write_bindings = <<>>]

\* read_values_from_external: a copy of binding_values
ReadValuesFromExternal(service) == service.binding_values

----------------------------------------------------------------------------
(* create_and_start_simulation *)

MaxSimulations == 2
MaxSteps == 2
MaxPendingDisconnects == 1

SimulationIds == 1..MaxSimulations

\* fmpy.read_model_description / extract / FMU2Slave(...).instantiate() on a path
FmuLoads(fmu_path) == fmu_path = Str("good.fmu")

\* lines 142-147: a missing fmu_path stops the loading
MissingPathCleanup(fmu_instances) == fmu_instances

\* lines 185-191: terminate and free what was loaded, then clear
LoadFailureCleanup(fmu_instances) == {}

RECURSIVE LoadFmus(_, _, _)
\* lines 138-192: for comp in new_sim.components
LoadFmus(components, k, fmu_instances) ==
    IF k > Len(components)
    THEN [fmu_instances |-> fmu_instances, fmu_load_successful |-> TRUE,
          error_message |-> None]
    ELSE LET comp == components[k]
             fmu_path == IF comp.config = None THEN None ELSE Get(comp.config, "fmu_path")
         IN IF comp.type # "FMU" THEN LoadFmus(components, k + 1, fmu_instances)
            ELSE IF fmu_path = None \/ fmu_path = Str("")
            THEN [fmu_instances |-> MissingPathCleanup(fmu_instances),
                  fmu_load_successful |-> FALSE,
                  error_message |-> Str("missing fmu_path")]
            ELSE IF ~FmuLoads(fmu_path)
            THEN [fmu_instances |-> LoadFailureCleanup(fmu_instances),
                  fmu_load_successful |-> FALSE,
                  error_message |-> Str("Failed to load FMU")]
            ELSE LoadFmus(components, k + 1, fmu_instances \cup {comp.id})

\* a state that always takes the first id
NewSimulationStateFirstId(sim_id, machine_model_id, simulation_mode, loaded_components, loaded_connections, loaded_bindings) ==
    [simulation_id |-> 1,
     machine_model_id |-> machine_model_id,
     status |-> "starting",
     components |-> loaded_components,
     connections |-> loaded_connections,
     communication_bindings |-> loaded_bindings,
     component_states |-> [c \in ComponentIds(loaded_components) |-> EmptyDict],
     execution_order |-> <<>>,
     error_message |-> None,
     comm_service |-> simulation_mode = "hil",
     fmu_instances |-> {}]

\* lines 109-120
NewSimulationState(sim_id, machine_model_id, simulation_mode, loaded_components, loaded_connections, loaded_bindings) ==
    [simulation_id |-> sim_id,
     machine_model_id |-> machine_model_id,
     status |-> "starting",
     components |-> loaded_components,
     connections |-> loaded_connections,
     communication_bindings |-> loaded_bindings,
     component_states |-> [c \in ComponentIds(loaded_components) |-> EmptyDict],
     execution_order |-> <<>>,
     error_message |-> None,
     comm_service |-> simulation_mode = "hil",
     fmu_instances |-> {}]

\* the history of a status after an assignment to it
Assigned(history, status) ==
    IF history # <<>> /\ history[Len(history)] = status THEN history
    ELSE Append(history, status)

NoTask == [pc |-> "none", simulation_mode |-> "pure", step_count |-> 0]

\* The call from the id allocation to its return: nothing in it suspends.
\* bindings_fetched is whether the bindings query of a hil start succeeded.
CreateAndStartSimulation(machine_model_id, simulation_mode, bindings_fetched) ==
    /\ next_simulation_id <= MaxSimulations
    /\ LET sim_id == next_simulation_id
           db == MachineModels[machine_model_id]
           loaded_bindings ==
               IF simulation_mode = "hil" /\ bindings_fetched
               THEN [k \in 1..Len(db.bindings) |-> CommunicationBindingSchema(db.bindings[k])]
               ELSE <<>>
           new_sim == NewSimulationState(sim_id, machine_model_id, simulation_mode,
                                         db.components, db.connections, loaded_bindings)
           sched == GetExecutionOrder(new_sim.components, new_sim.connections)
           fmus == LoadFmus(new_sim.components, 1, new_sim.fmu_instances)
           loaded == [new_sim EXCEPT
                         !.execution_order = sched.order,
                         !.fmu_instances = fmus.fmu_instances,
                         !.status = IF fmus.fmu_load_successful THEN @ ELSE "error",
                         !.error_message = fmus.error_message]
           with_comm == /\ fmus.fmu_load_successful
                        /\ simulation_mode = "hil"
                        /\ loaded.comm_service
                        /\ loaded.communication_bindings # <<>>
           init == InitializeConnections(communication_service,
                                         loaded.communication_bindings)
           final == IF with_comm /\ init.raised
                    THEN [loaded EXCEPT
                             !.status = "error",
                             !.error_message = Str("Failed to initialize communication"),
                             !.fmu_instances = {}]
                    ELSE loaded
       IN /\ simulation_mode = "pure" => bindings_fetched
          /\ next_simulation_id' = sim_id + 1
          /\ active_simulations' = Put(active_simulations, sim_id, final)
          /\ communication_service' =
                 IF ~with_comm THEN communication_service
                 ELSE IF init.raised THEN DisconnectAll(init.service)
                 ELSE init.service
          /\ cycle_warning' = [cycle_warning EXCEPT ![sim_id] = sched.cycle_nodes]
          /\ loop_task' = [loop_task EXCEPT ![sim_id] =
                 IF final.status # "error"
                 THEN [pc |-> "created", simulation_mode |-> simulation_mode,
                       step_count |-> 0]
                 ELSE @]
          /\ status_history' = [status_history EXCEPT ![sim_id] =
                 Assigned(Assigned(<<new_sim.status>>, loaded.status), final.status)]
          /\ setup_failures' = [setup_failures EXCEPT ![sim_id] =
                 (IF simulation_mode = "hil" /\ ~bindings_fetched
                  THEN {"bindings"} ELSE {})
                 \cup (IF ~fmus.fmu_load_successful THEN {"fmu_load"} ELSE {})
                 \cup (IF with_comm /\ init.raised THEN {"bridge"} ELSE {})]
    /\ last_stop' = None
    /\ UNCHANGED pending_disconnects
    /\ UNCHANGED <<sched_vars, tick_vars, bridge_vars, concurrency_vars, teardown_vars>>

\* lines 69-93: the components or the connections query raises, and so does the call;
\* the id is spent
StartFetchFailure ==
    /\ next_simulation_id <= MaxSimulations
    /\ next_simulation_id' = next_simulation_id + 1
    /\ last_stop' = None
    /\ UNCHANGED <<active_simulations, communication_service, loop_task,
                   pending_disconnects, cycle_warning, status_history>>
    /\ setup_failures' = [setup_failures EXCEPT ![next_simulation_id] =
           {"components_or_connections"}]
    /\ UNCHANGED <<sched_vars, tick_vars, bridge_vars, concurrency_vars, teardown_vars>>

----------------------------------------------------------------------------
(* stop_simulation *)

\* a stop that also takes a stopped simulation back to Stopping
StopOutcomeRestop(sim) ==
    IF sim.status \in {"running", "starting", "stopped"}
    THEN [status |-> "stopping", disconnect |-> FALSE, result |-> TRUE]
    ELSE [status |-> sim.status, disconnect |-> sim.comm_service, result |-> TRUE]

\* lines 232-247: what stop does to the status, whether it schedules disconnect_all
\* and what it returns
StopOutcome(sim) ==
    IF sim.status = "running" \/ sim.status = "starting"
    THEN [status |-> "stopping", disconnect |-> FALSE, result |-> TRUE]
    ELSE IF sim.status \in {"stopped", "error", "pending", "stopping"}
    THEN [status |-> sim.status, disconnect |-> sim.comm_service, result |-> TRUE]
    ELSE [status |-> sim.status, disconnect |-> FALSE, result |-> FALSE]

\* src/app/api/api_v1/endpoints/simulation.py
HTTP_200_OK == 200
HTTP_400_BAD_REQUEST == 400
HTTP_404_NOT_FOUND == 404

\* an endpoint that never looks the simulation up
StopEndpointNoLookup(stopped, state) ==
    IF stopped THEN HTTP_200_OK ELSE HTTP_400_BAD_REQUEST

\* endpoints/simulation.py lines 57-67: the status code the stop endpoint answers
\* with, from what the service returned and from get_simulation_state
StopEndpoint(stopped, state) ==
    IF ~stopped
    THEN IF state = None THEN HTTP_404_NOT_FOUND ELSE HTTP_400_BAD_REQUEST
    ELSE HTTP_200_OK

\* the stop endpoint: stop_simulation, then the answer
StopSimulation(simulation_id) ==
    IF simulation_id \notin DOMAIN active_simulations
    THEN /\ last_stop' = [status |-> "unknown", result |-> FALSE,
                          status_code |-> StopEndpoint(FALSE, None)]
         /\ UNCHANGED <<next_simulation_id, active_simulations, communication_service,
                        loop_task, pending_disconnects, cycle_warning,
                        status_history>>
         /\ UNCHANGED setup_failures
         /\ UNCHANGED <<sched_vars, tick_vars, bridge_vars, concurrency_vars, teardown_vars>>
    ELSE LET sim == active_simulations[simulation_id]
             out == StopOutcome(sim)
         IN /\ out.disconnect => pending_disconnects < MaxPendingDisconnects
            /\ active_simulations' =
                   [active_simulations EXCEPT ![simulation_id].status = out.status]
            /\ pending_disconnects' = pending_disconnects + (IF out.disconnect THEN 1 ELSE 0)
            /\ last_stop' = [status |-> sim.status, result |-> out.result,
                             status_code |->
                                 StopEndpoint(out.result,
                                              [sim EXCEPT !.status = out.status])]
            /\ status_history' = [status_history EXCEPT ![simulation_id] =
                                      Assigned(@, out.status)]
            /\ UNCHANGED <<next_simulation_id, communication_service, loop_task,
                           cycle_warning>>
            /\ UNCHANGED setup_failures
            /\ UNCHANGED <<sched_vars, tick_vars, bridge_vars, concurrency_vars, teardown_vars>>

\* the disconnect_all task that stop_simulation created (line 243) runs
DisconnectTask ==
    /\ pending_disconnects > 0
    /\ pending_disconnects' = pending_disconnects - 1
    /\ communication_service' = DisconnectAll(communication_service)
    /\ last_stop' = None
    /\ UNCHANGED <<next_simulation_id, active_simulations, loop_task, cycle_warning,
                   status_history>>
    /\ UNCHANGED setup_failures
    /\ UNCHANGED <<sched_vars, tick_vars, bridge_vars, concurrency_vars, teardown_vars>>

----------------------------------------------------------------------------
(* _run_simulation_loop *)

FmuIds(sim) == {sim.components[k].id : k \in {j \in 1..Len(sim.components) :
                                                sim.components[j].type = "FMU"}}

\* a cleanup that forgets to clear the dictionary
LeakFmus(fmu_instances) == fmu_instances

\* lines 630-640: terminate and free every instance, then clear the dictionary
CleanupFmus(fmu_instances) == {}

\* lines 652-654
FinalStatus(status) == IF status \notin {"error", "stopped"} THEN "stopped" ELSE status

\* the finally block, lines 626-656; disconnect_all has no client to await
Cleanup(sim) ==
    [sim EXCEPT !.fmu_instances = CleanupFmus(@), !.status = FinalStatus(@)]

\* lines 319-320: the task's first step sets the status on entering the loop
LoopEntryStatus(status) == "running"

\* line 615: after the sleep
StopRequested(status) == status = "stopping"

\* The task from the top of `while sim.status == "running"` to its next
\* suspension: one whole tick and the sleep, or the exit and the cleanup.
\* Nothing inside a tick suspends: read_values_from_external awaits nothing,
\* and no write is awaited (the loop of a simulation has no bindings, see
\* InitializeConnections).
LoopFrom(simulation_id, sim, task, fmu_env) ==
    IF sim.status # "running"
    THEN \* the while condition fails: line 619, then the finally block
         /\ active_simulations' = Put(active_simulations, simulation_id,
                                      Cleanup([sim EXCEPT !.status = "stopped"]))
         /\ communication_service' = IF sim.comm_service
                                     THEN DisconnectAll(communication_service)
                                     ELSE communication_service
         /\ loop_task' = [loop_task EXCEPT ![simulation_id].pc = "done"]
    ELSE LET external_inputs ==
                 IF task.simulation_mode = "hil" /\ sim.comm_service
                 THEN ReadValuesFromExternal(communication_service)
                 ELSE EmptyDict
             r == ExecuteComponents(sim, task.simulation_mode, external_inputs,
                                    task.step_count, fmu_env, 1, EmptyDict)
         IN IF r.raised
            THEN \* except Exception, lines 622-625, then the finally block
                 /\ active_simulations' = Put(active_simulations, simulation_id,
                        Cleanup([sim EXCEPT !.status = "error",
                                            !.error_message = Str("TypeError")]))
                 /\ communication_service' = IF sim.comm_service
                                             THEN DisconnectAll(communication_service)
                                             ELSE communication_service
                 /\ loop_task' = [loop_task EXCEPT ![simulation_id] =
                        [@ EXCEPT !.pc = "done", !.step_count = @ + 1]]
            ELSE /\ active_simulations' = Put(active_simulations, simulation_id,
                        [sim EXCEPT !.component_states =
                                        Update(@, r.next_component_states)])
                 /\ communication_service' = communication_service
                 /\ loop_task' = [loop_task EXCEPT ![simulation_id] =
                        [@ EXCEPT !.pc = "sleep", !.step_count = @ + 1]]

\* the first step of the task that create_and_start_simulation created
LoopStart(simulation_id) ==
    /\ loop_task[simulation_id].pc = "created"
    /\ LET sim == active_simulations[simulation_id]
           entered == [sim EXCEPT !.status = LoopEntryStatus(@)]
       IN /\ \E fmu_env \in [FmuIds(sim) -> FmuOutcomes] :
                 LoopFrom(simulation_id, entered, loop_task[simulation_id], fmu_env)
          /\ status_history' = [status_history EXCEPT ![simulation_id] =
                 Assigned(Assigned(@, entered.status),
                          active_simulations'[simulation_id].status)]
    /\ last_stop' = None
    /\ UNCHANGED <<next_simulation_id, pending_disconnects, cycle_warning>>
    /\ UNCHANGED setup_failures
    /\ UNCHANGED <<sched_vars, tick_vars, bridge_vars, concurrency_vars, teardown_vars>>

\* the task resumes after asyncio.sleep(1.0), line 612
LoopWake(simulation_id) ==
    /\ loop_task[simulation_id].pc = "sleep"
    /\ LET sim == active_simulations[simulation_id]
           task == loop_task[simulation_id]
       IN /\ IF StopRequested(sim.status)
             THEN \* break, line 619, then the finally block
                  /\ active_simulations' = Put(active_simulations, simulation_id,
                                               Cleanup([sim EXCEPT !.status = "stopped"]))
                  /\ communication_service' = IF sim.comm_service
                                              THEN DisconnectAll(communication_service)
                                              ELSE communication_service
                  /\ loop_task' = [loop_task EXCEPT ![simulation_id].pc = "done"]
             ELSE /\ sim.status = "running" => task.step_count < MaxSteps
                  /\ \E fmu_env \in [FmuIds(sim) -> FmuOutcomes] :
                         LoopFrom(simulation_id, sim, task, fmu_env)
          /\ status_history' = [status_history EXCEPT ![simulation_id] =
                 Assigned(@, active_simulations'[simulation_id].status)]
    /\ last_stop' = None
    /\ UNCHANGED <<next_simulation_id, pending_disconnects, cycle_warning>>
    /\ UNCHANGED setup_failures
    /\ UNCHANGED <<sched_vars, tick_vars, bridge_vars, concurrency_vars, teardown_vars>>

----------------------------------------------------------------------------
(* The service *)


IdleSched == [components |-> <<>>, connections |-> <<>>]
IdleBridge == [service |-> None, bindings |-> <<>>, env |-> None]
IdleTick == [sim |-> None, simulation_mode |-> "pure", external_inputs |-> EmptyDict, fmu_env |-> EmptyDict]

\* the module as imported: no simulation yet, the bridge constructed
\* no callback delivered, nothing read, no bridge call in flight, no client made
NoConcurrency ==
    /\ callbacks = <<>>
    /\ returned = None
    /\ coroutines = <<>>
    /\ clients = <<>>

SimulationsIdle ==
    /\ next_simulation_id = 1
    /\ active_simulations = EmptyDict
    /\ loop_task = [i \in SimulationIds |-> NoTask]
    /\ pending_disconnects = 0
    /\ cycle_warning = [i \in SimulationIds |-> {}]
    /\ last_stop = None
    /\ status_history = [i \in SimulationIds |-> <<>>]
    /\ setup_failures = [i \in SimulationIds |-> {}]

IdleTeardown == [fmu_instances |-> <<>>, exit |-> "none", env |-> None]
NoTeardown == teardown_in = IdleTeardown /\ teardown_out = None

ServiceIdle ==
    /\ SimulationsIdle
    /\ communication_service = NewCommunicationService

Init ==
    /\ ServiceIdle
    /\ sched_in = IdleSched
    /\ sched_out = None
    /\ tick_in = IdleTick
    /\ tick_out = None
    /\ tick_result = None
    /\ bridge_in = IdleBridge
    /\ bridge_out = None
    /\ NoConcurrency
    /\ NoTeardown

Start ==
    \E m \in MachineModelIds, mode \in SimulationModes, fetched \in BOOLEAN :
        CreateAndStartSimulation(m, mode, fetched)

Stop == \E i \in 1..(MaxSimulations + 1) : StopSimulation(i)

Next ==
    \/ Start
    \/ StartFetchFailure
    \/ Stop
    \/ DisconnectTask
    \/ \E i \in SimulationIds : LoopStart(i)
    \/ \E i \in SimulationIds : LoopWake(i)

Spec == Init /\ [][Next]_vars

\* The service while it is asked for MaxFairSimulations simulations at most
MaxFairSimulations == 1

FairStart == next_simulation_id <= MaxFairSimulations /\ Start

FairFetchFailure == next_simulation_id <= MaxFairSimulations /\ StartFetchFailure

FairNext ==
    \/ FairStart
    \/ FairFetchFailure
    \/ Stop
    \/ DisconnectTask
    \/ \E i \in SimulationIds : LoopStart(i)
    \/ \E i \in SimulationIds : LoopWake(i)

\* The event loop runs every task that is ready: a created loop task gets its
\* first step, and a sleeping one is resumed when its second has passed.
FairSpec ==
    /\ Init
    /\ [][FairNext]_vars
    /\ \A i \in SimulationIds : WF_vars(LoopStart(i)) /\ WF_vars(LoopWake(i))

----------------------------------------------------------------------------
(* _get_execution_order on its own: every snapshot of up to MaxComponents   *)
(* components and MaxConnections connections.  Ids that a snapshot leaves   *)
(* out are the components of other models that a connection may name.       *)

MaxComponents == 3
MaxConnections == 3

SnapshotIds == 1..MaxComponents

\* the component rows of a snapshot, in every order the query may return them
ComponentRows ==
    {[k \in 1..Len(ids) |-> Component(ids[k], "Sensor", None)] :
        ids \in {q \in UNION {[1..n -> SnapshotIds] : n \in 1..MaxComponents} :
                    \A a, b \in 1..Len(q) : a # b => q[a] # q[b]}}

\* a connection row: both ports given, or the target port left out
ConnectionRows ==
    {Connection(u, "out", v, target_port) :
        u \in SnapshotIds, v \in SnapshotIds, target_port \in {"in", NoPort}}

Snapshots ==
    {[components |-> c, connections |-> k] :
        c \in ComponentRows,
        k \in UNION {[1..n -> ConnectionRows] : n \in 0..MaxConnections}}

SchedInit ==
    /\ ServiceIdle
    /\ sched_in \in Snapshots
    /\ sched_out = None
    /\ tick_in = IdleTick
    /\ tick_out = None
    /\ tick_result = None
    /\ bridge_in = IdleBridge
    /\ bridge_out = None
    /\ NoConcurrency
    /\ NoTeardown

\* line 125: new_sim.execution_order = _get_execution_order(components, connections)
Schedule ==
    /\ sched_out = None
    /\ sched_out' = GetExecutionOrder(sched_in.components, sched_in.connections)
    /\ UNCHANGED <<lifecycle_vars, sched_in, tick_vars, bridge_vars, concurrency_vars, teardown_vars>>

SchedSpec == SchedInit /\ [][Schedule]_vars

----------------------------------------------------------------------------
(* The input gathering of one tick on its own: a heater fed by a sensor,    *)
(* with the bindings, the previous states and the external snapshot drawn.  *)

SetpointConnection == Connection(2, "value", 1, "setpoint")
ReadSetpoint == CommunicationBindingSchema(BindingRow(1, 1, "setpoint", "read", "ns=2;s=Sp"))
WriteSetpoint == CommunicationBindingSchema(BindingRow(2, 1, "setpoint", "write", "ns=2;s=Out"))
ReadOther == CommunicationBindingSchema(BindingRow(2, 2, "gain", "read", "ns=2;s=Gain"))
WriteTemperature == CommunicationBindingSchema(BindingRow(3, 1, "temperature", "write", "ns=2;s=T"))
WriteValue == CommunicationBindingSchema(BindingRow(4, 2, "value", "write", "ns=2;s=V"))

TickComponents == <<Component(1, "Heater", HeaterConfig), Component(2, "Sensor", None)>>
TickConnections == {<<>>, <<SetpointConnection>>}
TickBindings == {<<>>, <<ReadSetpoint>>, <<ReadSetpoint, WriteSetpoint>>,
                 <<WriteSetpoint, ReadSetpoint>>, <<ReadOther, ReadSetpoint>>,
                 <<WriteValue, WriteTemperature, WriteSetpoint>>,
                 <<ReadSetpoint, WriteValue>>}
\* the sensor's state of the previous tick
PreviousStates == {EmptyDict, "value" :> Num(3), "value" :> Num(0), "value" :> None}
\* what a data change (or the first read) may have left for a binding
ExternalValues == {None, Num(0), Num(42)}
ExternalSnapshots == UNION {[ids -> ExternalValues] : ids \in SUBSET {1, 2}}

TickInputs ==
    {[sim |-> [NewSimulationState(1, 1, mode, TickComponents, conns, bindings)
                  EXCEPT !.status = "running",
                         !.execution_order = <<2, 1>>,
                         !.component_states = [@ EXCEPT ![2] = previous]],
      simulation_mode |-> mode,
      external_inputs |-> external,
      fmu_env |-> EmptyDict] :
        mode \in SimulationModes, conns \in TickConnections, bindings \in TickBindings,
        previous \in PreviousStates, external \in ExternalSnapshots}

\* a snapshot with two FMUs, a component of a kind the loop does not know and a
\* valve on the first FMU's output; the second FMU's instance may be missing
FmuTickComponents == <<Component(1, "FMU", "fmu_path" :> Str("good.fmu")), Component(2, "Gearbox", None), Component(3, "Valve", None), Component(4, "FMU", "fmu_path" :> Str("good.fmu"))>>
FmuTickConnections == <<Connection(1, "y", 3, "ControlSignal")>>
FmuTickInstances == {{1, 4}, {1}}

\* a heater driving an actuator, in either execution order, with the states of
\* the tick before (none on the first tick)
DelayTickComponents == <<Component(1, "Heater", HeaterConfig), Component(2, "Actuator", "threshold" :> Num(15))>>
DelayTickConnections == <<Connection(1, "temperature", 2, "command")>>
DelayTickOrders == {<<1, 2>>, <<2, 1>>}
HeaterStates == {EmptyDict, "temperature" :> Num(10), "temperature" :> Num(15), "temperature" :> Num(20)}
ActuatorStates == {EmptyDict, "status" :> Str("Off"), "status" :> Str("On")}

DelayTickInputs ==
    {[sim |-> [NewSimulationState(1, 1, mode, DelayTickComponents, DelayTickConnections, <<>>)
                  EXCEPT !.status = "running",
                         !.execution_order = order,
                         !.component_states = (1 :> heater) @@ (2 :> actuator)],
      simulation_mode |-> mode,
      external_inputs |-> EmptyDict,
      fmu_env |-> EmptyDict] :
        mode \in SimulationModes, order \in DelayTickOrders,
        heater \in HeaterStates, actuator \in ActuatorStates}

\* a heater driving an actuator whose threshold is a string, and a sensor, in
\* every execution order: the actuator's comparison raises once the heater has
\* a temperature
RaisingTickComponents == <<Component(1, "Heater", HeaterConfig), Component(2, "Actuator", "threshold" :> Str("high")), Component(3, "Sensor", None)>>
RaisingTickOrders == {<<1, 2, 3>>, <<1, 3, 2>>, <<2, 1, 3>>, <<2, 3, 1>>, <<3, 1, 2>>, <<3, 2, 1>>}

RaisingTickInputs ==
    {[sim |-> [NewSimulationState(1, 1, mode, RaisingTickComponents, DelayTickConnections, <<>>)
                  EXCEPT !.status = "running",
                         !.execution_order = order,
                         !.component_states = [@ EXCEPT ![1] = heater]],
      simulation_mode |-> mode,
      external_inputs |-> EmptyDict,
      fmu_env |-> EmptyDict] :
        mode \in SimulationModes, order \in RaisingTickOrders,
        heater \in {EmptyDict, "temperature" :> Num(10)}}

\* a key that a dictionary does not hold
Absent == [absent |-> TRUE]
Entry(k, v) == IF v = Absent THEN EmptyDict ELSE k :> v

\* one heater alone, its setpoint input bound to an external node: configurations
\* with and without each key, a first tick and later ticks, below, at and above
\* the setpoint and the ambient temperature
HeaterTemperatures == {EmptyDict, "temperature" :> Num(5), "temperature" :> Num(10), "temperature" :> Num(20), "temperature" :> Num(25), "temperature" :> Num(510)}
HeaterSetpointInputs == {EmptyDict, 1 :> None, 1 :> Num(15), 1 :> Str("high")}
HeaterConfigs ==
    {Entry("setpoint", setpoint) @@ Entry("heating_rate", heating_rate)
        @@ Entry("cooling_rate", cooling_rate) @@ Entry("ambient_temp", ambient_temp)
        @@ Entry("initial_temp", initial_temp) :
        setpoint \in {Absent, Num(0), Num(20)},
        heating_rate \in {Absent, Num(0), Num(15)},
        cooling_rate \in {Absent, Num(0), Num(15)},
        ambient_temp \in {Absent, Num(10)},
        initial_temp \in {Absent, Num(5), Num(30)}}

HeaterTickInputs ==
    {[sim |-> [NewSimulationState(1, 1, mode, <<Component(1, "Heater", config)>>, <<>>,
                                  <<ReadSetpoint>>)
                  EXCEPT !.status = "running",
                         !.execution_order = <<1>>,
                         !.component_states = 1 :> previous],
      simulation_mode |-> mode,
      external_inputs |-> external,
      fmu_env |-> EmptyDict] :
        mode \in SimulationModes, config \in HeaterConfigs,
        previous \in HeaterTemperatures, external \in HeaterSetpointInputs}

FmuTickInputs ==
    {[sim |-> [NewSimulationState(1, 1, mode, FmuTickComponents, FmuTickConnections, <<>>)
                  EXCEPT !.status = "running",
                         !.execution_order = <<1, 2, 3, 4>>,
                         !.fmu_instances = instances],
      simulation_mode |-> mode,
      external_inputs |-> EmptyDict,
      fmu_env |-> env] :
        mode \in SimulationModes, instances \in FmuTickInstances,
        env \in [{1, 4} -> FmuOutcomes]}

TickInit ==
    /\ ServiceIdle
    /\ sched_in = IdleSched
    /\ sched_out = None
    /\ tick_in \in TickInputs \cup FmuTickInputs \cup DelayTickInputs \cup RaisingTickInputs
                  \cup HeaterTickInputs
    /\ tick_out = None
    /\ tick_result = None
    /\ bridge_in = IdleBridge
    /\ bridge_out = None
    /\ NoConcurrency
    /\ NoTeardown

\* lines 348-386: the inputs each component of the execution order is given
Gather ==
    /\ tick_out = None
    /\ tick_out' = [inputs |-> [c \in Range(tick_in.sim.execution_order) |->
                                    GatherInputs(tick_in.sim, tick_in.simulation_mode,
                                                 tick_in.external_inputs, c)]]
    /\ UNCHANGED <<lifecycle_vars, sched_vars, tick_in, tick_result, bridge_vars, concurrency_vars, teardown_vars>>

\* a tick whose components read the outputs of the same tick
TickOutcomeInPlace(tick) ==
    LET sim == tick.sim
        r == ExecuteComponentsSameTick(sim, tick.simulation_mode, tick.external_inputs,
                                       1, tick.fmu_env, 1, EmptyDict)
    IN [raised |-> r.raised,
        status |-> IF r.raised THEN "error" ELSE sim.status,
        next_component_states |-> r.next_component_states,
        component_states |->
            IF r.raised THEN sim.component_states
            ELSE Update(sim.component_states, r.next_component_states),
        values_to_write_external |->
            IF r.raised THEN EmptyDict
            ELSE ValuesToWriteExternal(sim, tick.simulation_mode, r.next_component_states)]

\* lines 345-625: one tick from the component loop to the write batch, or to the
\* except clause.  The clock reads one second.
TickOutcome(tick) ==
    LET sim == tick.sim
        r == ExecuteComponents(sim, tick.simulation_mode, tick.external_inputs,
                               1, tick.fmu_env, 1, EmptyDict)
    IN [raised |-> r.raised,
        status |-> IF r.raised THEN "error" ELSE sim.status,
        next_component_states |-> r.next_component_states,
        component_states |->
            IF r.raised THEN sim.component_states
            ELSE Update(sim.component_states, r.next_component_states),
        values_to_write_external |->
            IF r.raised THEN EmptyDict
            ELSE ValuesToWriteExternal(sim, tick.simulation_mode, r.next_component_states)]

ExecuteTick ==
    /\ tick_result = None
    /\ tick_result' = TickOutcome(tick_in)
    /\ UNCHANGED <<lifecycle_vars, sched_vars, tick_in, tick_out, bridge_vars, concurrency_vars, teardown_vars>>

TickNext == Gather \/ ExecuteTick

TickSpec == TickInit /\ [][TickNext]_vars

----------------------------------------------------------------------------
(* initialize_connections on bindings that carry endpoint_url, and the start
   around it.  What the servers do is the environment's: env.alive are the urls
   whose existing client still answers, env.connect the urls that accept a
   connection, env.subscription those where create_subscription succeeds,
   env.nodes the binding ids whose node is found, env.data_change the urls
   where subscribe_data_change succeeds. *)

\* del d[k]
Remove(d, k) == [x \in DOMAIN d \ {k} |-> d[x]]

\* a binding object with the attribute endpoint_url
WithEndpointUrl(binding, endpoint_url) == binding @@ ("endpoint_url" :> endpoint_url)

RECURSIVE MapNodes(_, _, _, _)
\* lines 120-129: for binding in endpoint_read_bindings
MapNodes(node_id_to_binding_id_map, endpoint_read_bindings, k, env) ==
    IF k > Len(endpoint_read_bindings) THEN node_id_to_binding_id_map
    ELSE LET binding == endpoint_read_bindings[k]
         IN MapNodes(IF binding.id \in env.nodes
                     THEN Put(node_id_to_binding_id_map, binding.address, binding.id)
                     ELSE node_id_to_binding_id_map,
                     endpoint_read_bindings, k + 1, env)

\* lines 142-153: except Exception as conn_err
ConnectFailed(service, url) ==
    LET ids == {service.read_bindings[k].id :
                   k \in {j \in 1..Len(service.read_bindings) :
                              service.read_bindings[j].endpoint_url = url}}
        keys_to_remove == {n \in DOMAIN service.node_id_to_binding_id_map :
                              service.node_id_to_binding_id_map[n] \in ids}
    IN [service EXCEPT
           !.opcua_clients = Remove(@, url),
           !.opcua_subscriptions = Remove(@, url),
           !.node_id_to_binding_id_map = [n \in DOMAIN @ \ keys_to_remove |-> @[n]]]

\* lines 71-153: the body of `for url in endpoints`; no exception leaves it
InitializeEndpoint(service, url, env) ==
    LET existing_client == url \in DOMAIN service.opcua_clients
        is_connected == existing_client /\ url \in env.alive
        dropped == IF existing_client /\ ~is_connected
                   THEN [service EXCEPT !.opcua_clients = Remove(@, url),
                                        !.opcua_subscriptions = Remove(@, url)]
                   ELSE service
        endpoint_read_bindings ==
            SelectSeq(service.read_bindings, LAMBDA b : b.endpoint_url = url)
        connected == [dropped EXCEPT !.opcua_clients = Put(@, url, "Client")]
        subscribed == [connected EXCEPT
                          !.opcua_subscriptions = Put(@, url, "Subscription"),
                          !.node_id_to_binding_id_map =
                              MapNodes(@, endpoint_read_bindings, 1, env)]
    IN [service |->
            IF is_connected THEN service
            ELSE IF url \notin env.connect THEN ConnectFailed(dropped, url)
            ELSE IF endpoint_read_bindings = <<>> THEN connected
            ELSE IF url \notin env.subscription THEN connected
            ELSE subscribed,
        raised |-> FALSE]

\* the urls of the servers, in the order the set endpoints is iterated
EndpointOrder == <<"opc.tcp://a", "opc.tcp://b">>

RECURSIVE InitializeEndpoints(_, _, _, _)
\* lines 70-155: for url in endpoints
InitializeEndpoints(service, endpoints, k, env) ==
    IF k > Len(endpoints) THEN [service |-> service, raised |-> FALSE]
    ELSE LET r == InitializeEndpoint(service, endpoints[k], env)
         IN IF r.raised THEN r
            ELSE InitializeEndpoints(r.service, endpoints, k + 1, env)

\* initialize_connections, lines 57-155
InitializeConnectionsIn(service, bindings, env) ==
    LET split == InitializeConnections(service, bindings)
        endpoints == {bindings[k].endpoint_url : k \in 1..Len(bindings)} \ {""}
    IN IF split.raised THEN split
       ELSE InitializeEndpoints(split.service,
                                SelectSeq(EndpointOrder, LAMBDA url : url \in endpoints),
                                1, env)

ReadA == WithEndpointUrl(CommunicationBindingSchema(BindingRow(1, 1, "setpoint", "read", "ns=2;s=Sp")), "opc.tcp://a")
WriteA == WithEndpointUrl(CommunicationBindingSchema(BindingRow(2, 1, "temperature", "write", "ns=2;s=T")), "opc.tcp://a")
ReadB == WithEndpointUrl(CommunicationBindingSchema(BindingRow(3, 2, "command", "read", "ns=2;s=Cmd")), "opc.tcp://b")
ReadNowhere == WithEndpointUrl(CommunicationBindingSchema(BindingRow(4, 2, "gain", "read", "ns=2;s=Gain")), "")

BridgeBindings == {<<ReadA>>, <<ReadA, WriteA>>, <<ReadA, ReadB>>, <<WriteA>>, <<WriteA, ReadB>>, <<ReadNowhere>>, <<ReadSetpoint>>, <<ReadA, WriteSetpoint>>}
BridgeServices == {NewCommunicationService, [NewCommunicationService EXCEPT !.opcua_clients = "opc.tcp://a" :> "Client", !.opcua_subscriptions = "opc.tcp://a" :> "Subscription"]}
BridgeEnvs == [alive : SUBSET {"opc.tcp://a"}, connect : SUBSET Range(EndpointOrder), subscription : SUBSET Range(EndpointOrder), nodes : {{}, {1}, {1, 3}}, data_change : {{}, Range(EndpointOrder)}]

BridgeInit ==
    /\ ServiceIdle
    /\ sched_in = IdleSched
    /\ sched_out = None
    /\ tick_in = IdleTick
    /\ tick_out = None
    /\ tick_result = None
    /\ bridge_in \in [service : BridgeServices, bindings : BridgeBindings, env : BridgeEnvs]
    /\ bridge_out = None
    /\ NoConcurrency
    /\ NoTeardown

\* simulation_service.py lines 195-217: the hil start awaits initialize_connections;
\* if it raises, the status is error, disconnect_all runs and no loop task is
\* created
InitializeAtStart ==
    /\ bridge_out = None
    /\ LET r == InitializeConnectionsIn(bridge_in.service, bridge_in.bindings, bridge_in.env)
       IN bridge_out' = [service |-> IF r.raised THEN DisconnectAll(r.service) ELSE r.service,
                         raised |-> r.raised,
                         status |-> IF r.raised THEN "error" ELSE "starting",
                         loop_task |-> IF r.raised THEN "none" ELSE "created"]
    /\ UNCHANGED <<lifecycle_vars, sched_vars, tick_vars, bridge_in, concurrency_vars, teardown_vars>>

BridgeSpec == BridgeInit /\ [][InitializeAtStart]_vars

----------------------------------------------------------------------------
(* Properties of the lifecycle *)

Registered == DOMAIN active_simulations
StatusOf(i) == active_simulations[i].status
Terminal(i) == StatusOf(i) \in {"stopped", "error"}

\* C1: a simulation that is Stopped or Error has no FMU instance left, and the
\* bridge it references holds no client session.
C1_TerminalIsClean ==
    \A i \in Registered :
        Terminal(i) =>
            /\ active_simulations[i].fmu_instances = {}
            /\ active_simulations[i].comm_service =>
                   communication_service.opcua_clients = EmptyDict

StatusChain ==
    {<<"pending", "starting">>, <<"starting", "running">>, <<"running", "stopping">>,
     <<"stopping", "stopped">>, <<"running", "error">>, <<"starting", "stopping">>,
     <<"starting", "error">>}

\* C3: every change of a simulation's status is a step of the chain
\* Pending->Starting->Running->(Stopping->Stopped | Error), Starting->Stopping or
\* Starting->Error; so none goes backwards and Stopped and Error are final.
C3_StatusFollowsChain ==
    \A i \in SimulationIds :
        \A k \in 1..(Len(status_history[i]) - 1) :
            <<status_history[i][k], status_history[i][k + 1]>> \in StatusChain

\* the places of status_history[i] where Running->Stopping->Stopped starts
StopSequences(i) ==
    {k \in 1..(Len(status_history[i]) - 2) :
        /\ status_history[i][k] = "running"
        /\ status_history[i][k + 1] = "stopping"
        /\ status_history[i][k + 2] = "stopped"}

InTick(i) == i \in Registered /\ StatusOf(i) = "stopping" /\ loop_task[i].pc = "sleep"

\* C5: once a stop is accepted during a tick (the loop is in the tick's sleep),
\* no further tick starts: the loop's next step is the exit, which leaves the
\* status Stopped, no FMU instance and the bridge disconnected; and under fair
\* scheduling that step is taken.
C5_StopWithinOneTick ==
    /\ [][\A i \in SimulationIds :
             InTick(i) =>
                 /\ loop_task'[i].step_count = loop_task[i].step_count
                 /\ active_simulations'[i].component_states =
                        active_simulations[i].component_states
                 /\ loop_task'[i].pc # "sleep" =>
                        /\ loop_task'[i].pc = "done"
                        /\ active_simulations'[i].status = "stopped"
                        /\ active_simulations'[i].fmu_instances = {}
                        /\ active_simulations[i].comm_service =>
                               communication_service' = NewCommunicationService]_vars
    /\ \A i \in SimulationIds :
           InTick(i) ~> (loop_task[i].pc = "done" /\ StatusOf(i) = "stopped"
                         /\ active_simulations[i].fmu_instances = {})

\* C5 happens: a hil simulation with an FMU was stopped in its second tick and ended
C5_Witness ==
    \E i \in Registered :
        /\ status_history[i] = <<"starting", "running", "stopping", "stopped">>
        /\ loop_task[i] = [pc |-> "done", simulation_mode |-> "hil", step_count |-> 2]
        /\ FmuIds(active_simulations[i]) # {}

HilRunning(i) ==
    i \in Registered /\ active_simulations[i].comm_service /\ StatusOf(i) = "running"

----------------------------------------------------------------------------
(* Properties of the scheduler *)

\* the pairs (source, target) of the connections between components of the
\* snapshot that satisfy keep
Edges(components, connections, keep(_)) ==
    {<<connections[k].source_component_id, connections[k].target_component_id>> :
        k \in {j \in 1..Len(connections) :
                 /\ connections[j].source_component_id \in ComponentIds(components)
                 /\ connections[j].target_component_id \in ComponentIds(components)
                 /\ keep(connections[j])}}

AnyConnection(conn) == TRUE
BothPorts(conn) == conn.source_port # NoPort /\ conn.target_port # NoPort

RECURSIVE Paths(_, _)
\* the pairs joined by a path of 1 to n + 1 edges of E
Paths(E, n) ==
    IF n = 0 THEN E
    ELSE LET P == Paths(E, n - 1)
         IN P \cup {<<q[1][1], q[2][2]>> : q \in {r \in P \X E : r[1][2] = r[2][1]}}

Reachable(E) == Paths(E, Cardinality(E))
Acyclic(E) == \A e \in Reachable(E) : e[1] # e[2]
\* a cycle of length 2 or more: two different vertices, each reachable from the other
HasLongCycle(E) == \E e \in Reachable(E) : e[1] # e[2] /\ <<e[2], e[1]>> \in Reachable(E)
\* the vertices on a cycle or downstream of one
OnOrAfterCycle(E) ==
    {e[2] : e \in {f \in Reachable(E) : <<f[1], f[1]>> \in Reachable(E)}}

IsPermutation(order, ids) ==
    /\ Len(order) = Cardinality(ids)
    /\ \A c \in ids : Cardinality({k \in 1..Len(order) : order[k] = c}) = 1
    /\ Range(order) \subseteq ids

Scheduled == sched_out # None

\* C7: for every snapshot, cyclic or not, with or without connections that name
\* unknown components, execution_order holds every component id of the snapshot
\* exactly once and no other id.
C7_OrderIsPermutation ==
    Scheduled => IsPermutation(sched_out.order, ComponentIds(sched_in.components))

\* C7 happens: a snapshot of two components in a cycle, with a connection from a
\* component that is not in the snapshot, was scheduled
C7_Witness ==
    /\ Scheduled
    /\ Len(sched_in.components) = 2
    /\ sched_out.cycle_nodes = ComponentIds(sched_in.components)
    /\ \E k \in 1..Len(sched_in.connections) :
           sched_in.connections[k].source_component_id
               \notin ComponentIds(sched_in.components)

Position(order, c) == CHOOSE k \in 1..Len(order) : order[k] = c

\* C8: when the graph of the connections that have both ports and both endpoints
\* in the snapshot is acyclic, the source of every such connection comes strictly
\* before its target in execution_order.
C8_PortedConnectionsOrdered ==
    LET E == Edges(sched_in.components, sched_in.connections, BothPorts)
    IN (Scheduled /\ Acyclic(E)) =>
           \A e \in E : Position(sched_out.order, e[1]) < Position(sched_out.order, e[2])

----------------------------------------------------------------------------
(* The cycle fallback in a started simulation *)

GraphOf(sim) == Edges(sim.components, sim.connections, AnyConnection)
Cyclic(i) == i \in Registered /\ HasLongCycle(GraphOf(active_simulations[i]))
SetupErrors == {Str("missing fmu_path"), Str("Failed to load FMU"),
                Str("Failed to initialize communication")}

----------------------------------------------------------------------------
(* Properties of the input gathering *)

Gathered == tick_out # None

\* a connection into a port and a read binding on the same component and port
Overridden(conn, binding) ==
    /\ BothPorts(conn)
    /\ binding.direction = "read"
    /\ binding.component_id = conn.target_component_id
    /\ binding.component_port = conn.target_port

\* the source's value of the previous tick on the connection
InternalValue(conn) ==
    Get(GetOr(tick_in.sim.component_states, conn.source_component_id, EmptyDict),
        conn.source_port)

\* the input the kernel of the connection's target is given on the target port
EffectiveInput(conn) == Get(tick_out.inputs[conn.target_component_id], conn.target_port)

----------------------------------------------------------------------------
(* Properties of the write batch *)

Ticked == tick_result # None /\ ~tick_result.raised
WriteBindings == {b \in Range(tick_in.sim.communication_bindings) : b.direction = "write"}
\* what the binding's component produced on the binding's port in this tick
Produced(binding) ==
    Get(GetOr(tick_result.next_component_states, binding.component_id, EmptyDict),
        binding.component_port)

\* C11: in a tick of a hil simulation every component of the execution order has
\* produced its output when the batch is built; the batch holds, for exactly the
\* write bindings whose port produced a value in this tick, that value of this
\* tick, under the binding's id (so once).
C11_WriteBatchFromThisTick ==
    (Ticked /\ tick_in.simulation_mode = "hil") =>
        /\ Range(tick_in.sim.execution_order) \subseteq DOMAIN tick_result.next_component_states
        /\ DOMAIN tick_result.values_to_write_external =
               {b.id : b \in {w \in WriteBindings : Produced(w) # None}}
        /\ \A b \in WriteBindings :
               Produced(b) # None => tick_result.values_to_write_external[b.id] = Produced(b)

\* C11 happens: the sensor's value of this tick differs from its previous one, the
\* batch holds this tick's value and the heater's temperature, and leaves out the
\* write binding on a port that produced nothing
C11_Witness ==
    /\ Ticked
    /\ tick_in.simulation_mode = "hil"
    /\ tick_in.sim.communication_bindings = <<WriteValue, WriteTemperature, WriteSetpoint>>
    /\ tick_in.sim.component_states[2] = ("value" :> Num(3))
    /\ tick_result.next_component_states[2] = ("value" :> Num(6))
    /\ DOMAIN tick_result.values_to_write_external = {WriteValue.id, WriteTemperature.id}
    /\ tick_result.values_to_write_external[WriteValue.id] = Num(6)

----------------------------------------------------------------------------
(* Properties of a failing start *)

\* the start of simulation i stopped at an FMU it could not load
LoadFailed(i) ==
    active_simulations[i].error_message \in {Str("missing fmu_path"), Str("Failed to load FMU")}

\* C12: when loading an FMU component fails during start (no fmu_path, or the
\* loading raises), the simulation holds no FMU instance (whatever was loaded
\* before is terminated and freed), its status is Error with an error message,
\* and no step loop task is ever created for it.
C12_LoadFailureIsClean ==
    \A i \in Registered :
        LoadFailed(i) =>
            /\ active_simulations[i].fmu_instances = {}
            /\ StatusOf(i) = "error"
            /\ loop_task[i].pc = "none"

\* the part of C12 about the status and the loop task
C12_LoadFailureNeverRuns ==
    \A i \in Registered :
        LoadFailed(i) => StatusOf(i) = "error" /\ loop_task[i].pc = "none"

\* the ids that starts have taken so far
Allocated == {i \in SimulationIds : i < next_simulation_id}

\* C13: a start in which a setup step failed (a fetch of components, connections
\* or bindings, the scheduling, an FMU load, the bridge initialization) leaves a
\* simulation with status Error in the registry under the id it allocated, which
\* a later get_simulation_state(id) returns.
C13_SetupFailureIsRegisteredError ==
    \A i \in Allocated :
        setup_failures[i] # {} => i \in Registered /\ StatusOf(i) = "error"

\* the part of C13 about the steps after the fetches
C13_LoadOrBridgeFailureIsRegisteredError ==
    \A i \in Allocated :
        setup_failures[i] \cap {"fmu_load", "bridge"} # {} =>
            i \in Registered /\ StatusOf(i) = "error"

\* C14: a start in which a fetch failed (components, connections, or the
\* bindings of a hil start) is aborted: its simulation never reaches Running, and
\* a hil simulation whose bindings fetch failed does not run with no bindings.
C14_FetchFailureNeverRuns ==
    \A i \in Allocated :
        setup_failures[i] \cap {"components_or_connections", "bindings"} # {} =>
            ~(i \in Registered /\ Contains(status_history[i], "running"))

\* the part of C14 about the components and the connections
C14_SnapshotFailureNeverRuns ==
    \A i \in Allocated :
        "components_or_connections" \in setup_failures[i] =>
            i \notin Registered /\ loop_task[i].pc = "none"

----------------------------------------------------------------------------
(* Properties of the stop endpoint *)

\* the statuses for which stop_simulation returns True
Acknowledged == {"running", "starting", "stopped", "error", "pending", "stopping"}

----------------------------------------------------------------------------
(* Properties of the id allocation *)

\* C16: however starts interleave with each other and with the other steps, and
\* whether they fail or not, the id a start takes is greater than every id taken
\* before, no two simulations have the same id, and a start neither overwrites
\* nor removes an entry of the registry.
C16_IdsAreFresh ==
    /\ [](\A i \in Registered :
             /\ active_simulations[i].simulation_id = i
             /\ i < next_simulation_id)
    /\ [][/\ next_simulation_id' >= next_simulation_id
          /\ Registered \subseteq Registered'
          /\ next_simulation_id' # next_simulation_id =>
                 /\ next_simulation_id' = next_simulation_id + 1
                 /\ Registered' \ Registered \subseteq {next_simulation_id}
                 /\ \A i \in Registered : active_simulations'[i] = active_simulations[i]
          /\ next_simulation_id' = next_simulation_id => Registered' = Registered]_vars

\* C16 happens: a start failed and spent id 1, and the start after it registered
\* its simulation under id 2
C16_Witness ==
    /\ setup_failures[1] = {"components_or_connections"}
    /\ Registered = {2}
    /\ active_simulations[2].simulation_id = 2
    /\ next_simulation_id = 3

----------------------------------------------------------------------------
(* Properties of the kernels within a tick *)

KnownKinds == {"Sensor", "Heater", "Actuator", "Valve", "FMU"}
TickComponentIds == ComponentIds(tick_in.sim.components)
KindOf(c) == ComponentOf(tick_in.sim.components, c).type
UnknownKind(c) == KindOf(c) \notin KnownKinds
InstanceMissing(c) == KindOf(c) = "FMU" /\ c \notin tick_in.sim.fmu_instances
Stepped(c) == KindOf(c) = "FMU" /\ c \in tick_in.sim.fmu_instances
DoStepNotOk(c) ==
    Stepped(c) /\ tick_in.fmu_env[c].kind = "status" /\ tick_in.fmu_env[c].code # fmi2OK
GetOrSetRaises(c) == Stepped(c) /\ tick_in.fmu_env[c].kind \in {"set_raises", "get_raises"}
KernelFails(c) == UnknownKind(c) \/ InstanceMissing(c) \/ DoStepNotOk(c) \/ GetOrSetRaises(c)
StateInTick(c) == tick_result.next_component_states[c]

\* the tick went through every component and left the simulation Running
TickCompleted ==
    /\ ~tick_result.raised
    /\ tick_result.status = "running"
    /\ DOMAIN tick_result.next_component_states = Range(tick_in.sim.execution_order)

\* the diagnostic values of an unknown kind, a missing instance and a doStep status
ListedDiagnostics ==
    \A c \in TickComponentIds :
        /\ UnknownKind(c) => StateInTick(c) = ("status" :> Str("unknown_type"))
        /\ InstanceMissing(c) => StateInTick(c) = ("status" :> Str("error_fmu_not_found"))
        /\ DoStepNotOk(c) =>
               StateInTick(c) = ("status" :> ErrorDoStep(tick_in.fmu_env[c].code))

\* C17: in a tick in which the kernel of a component fails (an FMU whose doStep
\* returns a status other than OK, whose instance is missing or whose get or set
\* raises; a component of unknown kind), the state of that component for the
\* tick is a diagnostic value {status: ...}, every other component of the
\* execution order is executed in the tick, and the status stays Running.
C17_KernelErrorsAreDiagnosed ==
    (tick_result # None /\ \E c \in TickComponentIds : KernelFails(c)) =>
        /\ TickCompleted
        /\ ListedDiagnostics
        /\ \A c \in TickComponentIds :
               GetOrSetRaises(c) => "status" \in DOMAIN StateInTick(c)

\* the part of C17 that leaves out the state after a get or a set that raised
C17_KernelErrorsAreNotFatal ==
    (tick_result # None /\ \E c \in TickComponentIds : KernelFails(c)) =>
        TickCompleted /\ ListedDiagnostics

----------------------------------------------------------------------------
(* Properties of a connection across ticks *)

DelayTick == tick_in.sim.components = DelayTickComponents
\* the heater's temperature of the tick before, None on the first tick
PreviousTemperature == Get(tick_in.sim.component_states[1], "temperature")
Threshold == ComponentOf(tick_in.sim.components, 2).config["threshold"]

\* C18: with a heater connected by temperature -> command to an actuator of
\* threshold th, the actuator's status of a tick is Off on the first tick and
\* otherwise On exactly if the heater's temperature of the tick before is >= th,
\* whatever the heater produces in the tick itself and whichever of the two
\* comes first in the execution order.
C18_OneTickDelay ==
    (Ticked /\ DelayTick) =>
        tick_result.next_component_states[2] =
            ("status" :> IF IsNum(PreviousTemperature)
                            /\ PreviousTemperature.num >= Threshold.num
                         THEN Str("On") ELSE Str("Off"))

\* C18 happens: the heater runs before the actuator and reaches the threshold in
\* this tick, having been below it the tick before, and the actuator stays Off
C18_Witness ==
    /\ Ticked
    /\ DelayTick
    /\ tick_in.sim.execution_order = <<1, 2>>
    /\ PreviousTemperature = Num(10)
    /\ tick_result.next_component_states[1] = ("temperature" :> Num(20))
    /\ tick_result.next_component_states[2] = ("status" :> Str("Off"))

----------------------------------------------------------------------------
(* Properties of the bridge at start *)

\* the endpoint urls that occur in a list of bindings
----------------------------------------------------------------------------
(* The bridge under concurrent calls.  initialize_connections and disconnect_all
   are coroutines of the one shared CommunicationService; every await on an
   asyncua call (get_endpoints, connect, disconnect, create_subscription,
   subscribe_data_change, gather) suspends, and other coroutines of the event
   loop run meanwhile.  A frame holds the locals of a call; opcua_clients maps a
   url to the number of its Client in clients. *)

MaxCalls == 3

NewClient(url) == [url |-> url, connected |-> FALSE, was_connected |-> FALSE, disconnect_called |-> FALSE]
NewFrame(kind) == [kind |-> kind, pc |-> "done", endpoints |-> <<>>, url |-> "", client |-> 0, gathered |-> {}]

\* client.disconnect() was called and has run
Disconnect(all_clients, ids) ==
    [c \in DOMAIN all_clients |->
        IF c \in ids
        THEN [all_clients[c] EXCEPT !.connected = FALSE, !.disconnect_called = TRUE]
        ELSE all_clients[c]]

\* lines 93-96: client = Client(url=url); await client.connect()
BeginConnect(st, url) ==
    [st EXCEPT !.clients = Append(@, NewClient(url)),
               !.frame = [@ EXCEPT !.pc = "connect", !.url = url,
                                   !.client = Len(st.clients) + 1]]

\* lines 70-96: the top of `for url in endpoints`, up to the first await
NextEndpoint(st) ==
    IF st.frame.endpoints = <<>> THEN [st EXCEPT !.frame = [@ EXCEPT !.pc = "done"]]
    ELSE LET url == Head(st.frame.endpoints)
             next == [st EXCEPT !.frame = [@ EXCEPT !.endpoints = Tail(@)]]
         IN IF url \in DOMAIN st.service.opcua_clients
            THEN [next EXCEPT !.frame = [@ EXCEPT !.pc = "get_endpoints", !.url = url,
                                                  !.client = st.service.opcua_clients[url]]]
            ELSE BeginConnect(next, url)

\* lines 57-77: the call of initialize_connections, up to its first await
Initialize(service, all_clients, bindings) ==
    LET split == InitializeConnections(service, bindings).service
        endpoints == {bindings[k].endpoint_url : k \in 1..Len(bindings)} \ {""}
        st == [service |-> split, clients |-> all_clients,
               frame |-> [NewFrame("initialize_connections") EXCEPT
                             !.endpoints = SelectSeq(EndpointOrder,
                                                     LAMBDA url : url \in endpoints)]]
    IN NextEndpoint(st)

\* lines 78-91: existing_client.get_endpoints() returned or raised
AfterGetEndpoints(st, is_connected) ==
    IF is_connected THEN NextEndpoint(st)
    ELSE [st EXCEPT !.frame = [@ EXCEPT !.pc = "disconnect_old"]]

\* lines 85-96: existing_client.disconnect() returned or raised; del
\* self.opcua_clients[url] raises KeyError when the entry has gone meanwhile
AfterDisconnectOld(st) ==
    LET url == st.frame.url
        disconnected == [st EXCEPT !.clients = Disconnect(@, {st.frame.client})]
    IN IF url \notin DOMAIN st.service.opcua_clients
       THEN [disconnected EXCEPT !.frame = [@ EXCEPT !.pc = "raised"]]
       ELSE BeginConnect([disconnected EXCEPT
                             !.service = [@ EXCEPT !.opcua_clients = Remove(@, url),
                                                   !.opcua_subscriptions = Remove(@, url)]],
                         url)

\* lines 96-107 and 142-153: client.connect() returned or raised
AfterConnect(st, connected) ==
    LET url == st.frame.url
        endpoint_read_bindings ==
            SelectSeq(st.service.read_bindings, LAMBDA b : b.endpoint_url = url)
        stored == [st EXCEPT
                      !.clients = [@ EXCEPT ![st.frame.client] =
                                      [@ EXCEPT !.connected = TRUE, !.was_connected = TRUE]],
                      !.service = [@ EXCEPT !.opcua_clients = Put(@, url, st.frame.client)]]
    IN IF connected
       THEN IF endpoint_read_bindings # <<>>
            THEN [stored EXCEPT !.frame = [@ EXCEPT !.pc = "create_subscription"]]
            ELSE NextEndpoint(stored)
       ELSE IF url \in DOMAIN st.service.opcua_clients
            THEN [st EXCEPT !.frame = [@ EXCEPT !.pc = "cleanup_disconnect",
                                                !.client = st.service.opcua_clients[url]]]
            ELSE NextEndpoint([st EXCEPT !.service = ConnectFailed(@, url)])

\* lines 145-153: the cleanup's disconnect() returned or raised; del
\* self.opcua_clients[url] raises KeyError, out of the except clause, when the
\* entry has gone meanwhile
AfterCleanupDisconnect(st) ==
    LET url == st.frame.url
        disconnected == [st EXCEPT !.clients = Disconnect(@, {st.frame.client})]
    IN IF url \notin DOMAIN st.service.opcua_clients
       THEN [disconnected EXCEPT !.frame = [@ EXCEPT !.pc = "raised"]]
       ELSE NextEndpoint([disconnected EXCEPT !.service = ConnectFailed(@, url)])

\* lines 107-141: client.create_subscription() returned or raised; nodes is the
\* bindings whose get_node succeeds
AfterCreateSubscription(st, created, nodes) ==
    LET url == st.frame.url
        endpoint_read_bindings ==
            SelectSeq(st.service.read_bindings, LAMBDA b : b.endpoint_url = url)
        nodes_to_monitor == SelectSeq(endpoint_read_bindings, LAMBDA b : b.id \in nodes)
        mapped == [st EXCEPT
                      !.service = [@ EXCEPT
                          !.opcua_subscriptions = Put(@, url, "Subscription"),
                          !.node_id_to_binding_id_map =
                              MapNodes(@, endpoint_read_bindings, 1, [nodes |-> nodes])]]
    IN IF ~created THEN NextEndpoint(st)
       ELSE IF nodes_to_monitor # <<>>
       THEN [mapped EXCEPT !.frame = [@ EXCEPT !.pc = "subscribe_data_change"]]
       ELSE NextEndpoint(mapped)

\* lines 134-141: subscription.subscribe_data_change() returned or raised
AfterSubscribeDataChange(st) == NextEndpoint(st)

\* lines 157-173: the call of disconnect_all, up to the await of gather; with no
\* client it clears the state at once (lines 181-188)
BeginDisconnectAll(service, all_clients) ==
    LET urls == DOMAIN service.opcua_clients
        gathered == {service.opcua_clients[url] : url \in urls}
    IN IF urls = {}
       THEN [service |-> DisconnectAll(service), clients |-> all_clients,
             frame |-> NewFrame("disconnect_all")]
       ELSE [service |-> service, clients |-> all_clients,
             frame |-> [NewFrame("disconnect_all") EXCEPT !.pc = "gather",
                                                          !.gathered = gathered]]

\* lines 173-188: gather returned; the state is cleared
AfterGather(st) ==
    [service |-> DisconnectAll(st.service),
     clients |-> Disconnect(st.clients, st.frame.gathered),
     frame |-> [st.frame EXCEPT !.pc = "done"]]

SessionBindings == {<<ReadA>>, <<WriteA, ReadB>>}

SessionInit ==
    /\ ServiceIdle
    /\ sched_in = IdleSched
    /\ sched_out = None
    /\ tick_in = IdleTick
    /\ tick_out = None
    /\ tick_result = None
    /\ bridge_in = IdleBridge
    /\ bridge_out = None
    /\ NoConcurrency
    /\ NoTeardown

Suspended(c) == [service |-> communication_service, clients |-> clients, frame |-> coroutines[c]]
At(pc) == {c \in DOMAIN coroutines : coroutines[c].pc = pc}

\* st is the bridge and the frame of coroutine c after its step
Resume(c, st) ==
    /\ communication_service' = st.service
    /\ clients' = st.clients
    /\ coroutines' = [coroutines EXCEPT ![c] = st.frame]
    /\ UNCHANGED <<next_simulation_id, active_simulations, loop_task, pending_disconnects,
                   cycle_warning, last_stop, status_history, setup_failures>>
    /\ UNCHANGED <<sched_vars, tick_vars, bridge_vars, callbacks, returned, teardown_vars>>

Spawn(st) ==
    /\ Len(coroutines) < MaxCalls
    /\ communication_service' = st.service
    /\ clients' = st.clients
    /\ coroutines' = Append(coroutines, st.frame)
    /\ UNCHANGED <<next_simulation_id, active_simulations, loop_task, pending_disconnects,
                   cycle_warning, last_stop, status_history, setup_failures>>
    /\ UNCHANGED <<sched_vars, tick_vars, bridge_vars, callbacks, returned, teardown_vars>>

\* a hil start calls initialize_connections (simulation_service.py line 198)
CallInitializeConnections ==
    \E bindings \in SessionBindings :
        Spawn(Initialize(communication_service, clients, bindings))

\* a stop, a failed start or the end of a loop calls disconnect_all
\* (simulation_service.py lines 206, 243, 646)
CallDisconnectAll == Spawn(BeginDisconnectAll(communication_service, clients))

\* the server answers get_endpoints only on a session that is connected
GetEndpointsReturns ==
    \E c \in At("get_endpoints"), is_connected \in BOOLEAN :
        /\ is_connected => clients[coroutines[c].client].connected
        /\ Resume(c, AfterGetEndpoints(Suspended(c), is_connected))

DisconnectOldReturns ==
    \E c \in At("disconnect_old") : Resume(c, AfterDisconnectOld(Suspended(c)))

ConnectReturns ==
    \E c \in At("connect"), connected \in BOOLEAN :
        Resume(c, AfterConnect(Suspended(c), connected))

CleanupDisconnectReturns ==
    \E c \in At("cleanup_disconnect") : Resume(c, AfterCleanupDisconnect(Suspended(c)))

CreateSubscriptionReturns ==
    \E c \in At("create_subscription"), created \in BOOLEAN, nodes \in {{}, {1, 3}} :
        Resume(c, AfterCreateSubscription(Suspended(c), created, nodes))

SubscribeDataChangeReturns ==
    \E c \in At("subscribe_data_change") : Resume(c, AfterSubscribeDataChange(Suspended(c)))

GatherReturns ==
    \E c \in At("gather") : Resume(c, AfterGather(Suspended(c)))

SessionNext ==
    \/ CallInitializeConnections
    \/ CallDisconnectAll
    \/ GetEndpointsReturns
    \/ DisconnectOldReturns
    \/ ConnectReturns
    \/ CleanupDisconnectReturns
    \/ CreateSubscriptionReturns
    \/ SubscribeDataChangeReturns
    \/ GatherReturns

SessionSpec == SessionInit /\ [][SessionNext]_vars

----------------------------------------------------------------------------
(* The teardown of the FMU instances.  fmu_instances is a dict: it is iterated
   in the order the instances were stored, the order of the components. *)

Call(method, comp_id) == [method |-> method, comp_id |-> comp_id]

\* lines 634-639, 186-190 and 209-213: terminate and freeInstance in one try,
\* whose except logs.  What is returned is the calls that were made.
TerminateAndFree(comp_id, env) ==
    IF comp_id \in env.terminate_raises THEN <<Call("terminate", comp_id)>>
    ELSE <<Call("terminate", comp_id), Call("freeInstance", comp_id)>>

RECURSIVE CleanUpFmuInstances(_, _, _)
\* lines 633-640, 185-191 and 208-214: for every instance, then clear
CleanUpFmuInstances(fmu_instances, k, env) ==
    IF k > Len(fmu_instances) THEN <<>>
    ELSE TerminateAndFree(fmu_instances[k], env)
             \o CleanUpFmuInstances(fmu_instances, k + 1, env)

\* the ways a simulation that instantiated FMUs ends: the loop's finally after a
\* stop or after an exception (626-640), a later FMU that fails to load
\* (179-192) or has no fmu_path (142-147), a bridge that fails to initialize
\* (200-214)
ExitPaths == {"stop", "loop_exception", "load_failure", "missing_fmu_path", "bridge_failure"}

TearDown(fmu_instances, exit, env) ==
    IF exit = "missing_fmu_path"
    THEN [calls |-> <<>>, fmu_instances |-> fmu_instances, propagated |-> FALSE]
    ELSE [calls |-> CleanUpFmuInstances(fmu_instances, 1, env),
          fmu_instances |-> <<>>, propagated |-> FALSE]

FmuComponentIds == {1, 2, 3}
\* the instances loaded so far, in component order
LoadedInstances == {<<>>, <<1>>, <<2>>, <<1, 2>>, <<1, 3>>, <<2, 3>>, <<1, 2, 3>>}
TeardownEnvs == [terminate_raises : SUBSET FmuComponentIds, free_raises : SUBSET FmuComponentIds]

TeardownInit ==
    /\ ServiceIdle
    /\ sched_in = IdleSched
    /\ sched_out = None
    /\ tick_in = IdleTick
    /\ tick_out = None
    /\ tick_result = None
    /\ bridge_in = IdleBridge
    /\ bridge_out = None
    /\ NoConcurrency
    /\ teardown_in \in [fmu_instances : LoadedInstances, exit : ExitPaths, env : TeardownEnvs]
    /\ teardown_out = None

SimulationEnds ==
    /\ teardown_out = None
    /\ teardown_out' = TearDown(teardown_in.fmu_instances, teardown_in.exit, teardown_in.env)
    /\ UNCHANGED <<lifecycle_vars, sched_vars, tick_vars, bridge_vars, concurrency_vars,
                   teardown_in>>

TeardownSpec == TeardownInit /\ [][SimulationEnds]_vars

----------------------------------------------------------------------------
(* The cache of latest values: SubHandler and read_values_from_external.
   asyncua delivers a data change by calling datachange_notification on the
   event loop; neither it nor read_values_from_external suspends, so each is
   one atomic step and they interleave in any order. *)

MaxCallbacks == 4

\* a handler that keeps the first value it got for a binding
DatachangeNotificationFirstWins(service, node_id_str, val) ==
    IF /\ node_id_str \in DOMAIN service.node_id_to_binding_id_map
       /\ service.node_id_to_binding_id_map[node_id_str] \notin DOMAIN service.binding_values
    THEN [service EXCEPT
             !.binding_values = Put(@, service.node_id_to_binding_id_map[node_id_str], val)]
    ELSE service

\* lines 23-30: SubHandler.datachange_notification
DatachangeNotification(service, node_id_str, val) ==
    IF node_id_str \in DOMAIN service.node_id_to_binding_id_map
    THEN LET binding_id == service.node_id_to_binding_id_map[node_id_str]
         IN [service EXCEPT !.binding_values = Put(@, binding_id, val)]
    ELSE service

\* the nodes a server may report: the two of the read bindings and one that no
\* binding names
NotifiedNodes == {ReadA.address, ReadB.address, "ns=2;s=Old"}
CacheBindings == <<ReadA, WriteA, ReadB>>
\* the servers accept everything; node 3 may fail to resolve
CacheEnvs == [alive : {{}}, connect : {Range(EndpointOrder)}, subscription : {Range(EndpointOrder)}, nodes : {{1}, {1, 3}}, data_change : {Range(EndpointOrder)}]

\* the bridge after an initialize_connections that returned
CacheInit ==
    /\ SimulationsIdle
    /\ \E env \in CacheEnvs :
           communication_service =
               InitializeConnectionsIn(NewCommunicationService, CacheBindings, env).service
    /\ sched_in = IdleSched
    /\ sched_out = None
    /\ tick_in = IdleTick
    /\ tick_out = None
    /\ tick_result = None
    /\ bridge_in = IdleBridge
    /\ bridge_out = None
    /\ NoConcurrency
    /\ NoTeardown

\* the server reports a data change
SubscriptionCallback ==
    /\ Len(callbacks) < MaxCallbacks
    /\ \E node_id_str \in NotifiedNodes, val \in ExternalValues :
           /\ communication_service' =
                  DatachangeNotification(communication_service, node_id_str, val)
           /\ callbacks' = Append(callbacks, [node |-> node_id_str, val |-> val])
    /\ UNCHANGED <<next_simulation_id, active_simulations, loop_task, pending_disconnects,
                   cycle_warning, last_stop, status_history, setup_failures>>
    /\ UNCHANGED <<sched_vars, tick_vars, bridge_vars, returned, coroutines, clients,
                   teardown_vars>>

\* simulation_service.py line 337: the step loop reads the external values
StepLoopRead ==
    /\ returned' = [values |-> ReadValuesFromExternal(communication_service),
                    position |-> Len(callbacks)]
    /\ UNCHANGED <<lifecycle_vars, sched_vars, tick_vars, bridge_vars, callbacks, coroutines,
                   clients, teardown_vars>>

CacheNext == SubscriptionCallback \/ StepLoopRead
CacheSpec == CacheInit /\ [][CacheNext]_vars

EndpointsOf(bindings) ==
    {bindings[k].endpoint_url :
        k \in {j \in 1..Len(bindings) : "endpoint_url" \in DOMAIN bindings[j]}}

\* simulation i is registered by this step, in hil mode, with bindings, and its
\* FMUs loaded: its start has called initialize_connections
BridgeInitializedBy(i) ==
    /\ i \notin Registered
    /\ i \in Registered'
    /\ active_simulations'[i].comm_service
    /\ active_simulations'[i].communication_bindings # <<>>
    /\ "fmu_load" \notin setup_failures'[i]

\* C19: when the start of a hil simulation has initialized the bridge (every
\* endpoint accepting the connection), the bridge holds one client session for
\* each endpoint url of the bindings and no other, and the start goes on towards
\* Running (status Starting, loop task created) instead of ending in Error.
C19_BridgeHoldsOneSessionPerEndpoint ==
    [][\A i \in SimulationIds :
          BridgeInitializedBy(i) =>
              /\ DOMAIN communication_service'.opcua_clients =
                     EndpointsOf(active_simulations'[i].communication_bindings)
              /\ active_simulations'[i].status = "starting"
              /\ loop_task'[i].pc = "created"]_vars

BridgeUrls == EndpointsOf(bridge_in.bindings) \ {""}
AllHaveUrl == \A k \in 1..Len(bridge_in.bindings) : "endpoint_url" \in DOMAIN bridge_in.bindings[k]
Reused(url) == url \in DOMAIN bridge_in.service.opcua_clients /\ url \in bridge_in.env.alive
Connects(url) == ~Reused(url) /\ url \in bridge_in.env.connect
ReadsOn(url) ==
    {b \in Range(bridge_in.bindings) : b.direction = "read" /\ b.endpoint_url = url}
SubscriptionFails(url) ==
    Connects(url) /\ ReadsOn(url) # {} /\ url \notin bridge_in.env.subscription
MonitoringFails(url) ==
    /\ Connects(url)
    /\ url \in bridge_in.env.subscription
    /\ \E b \in ReadsOn(url) :
           b.id \notin bridge_in.env.nodes \/ url \notin bridge_in.env.data_change
NoEndpointRemains == BridgeUrls # {} /\ \A url \in BridgeUrls : ~Reused(url) /\ ~Connects(url)
StartGoesOn == bridge_out.status = "starting" /\ bridge_out.loop_task = "created"

C20_SubscriptionFailureGoesOn ==
    (bridge_out # None /\ AllHaveUrl) =>
        ((\E url \in BridgeUrls : SubscriptionFails(url) \/ MonitoringFails(url)) =>
             StartGoesOn)

----------------------------------------------------------------------------
(* Properties of connections without a port *)

\* the connections of the snapshot that have both ports
PortedConnections == SelectSeq(sched_in.connections, BothPorts)

\* C21: a connection without a source port or without a target port gives the
\* scheduler no edge and no in-degree: the order and the cycle diagnostic are
\* those of the snapshot without such connections.
C21_PortlessConnectionsSkipped ==
    Scheduled => sched_out = GetExecutionOrder(sched_in.components, PortedConnections)

----------------------------------------------------------------------------
(* Properties of the execution order within a tick *)

RECURSIVE Orders(_)
\* the sequences that hold every element of S once
Orders(S) ==
    IF S = {} THEN {<<>>}
    ELSE UNION {{<<x>> \o rest : rest \in Orders(S \ {x})} : x \in S}

\* what a tick leaves behind: next_component_states is lost when the tick raises
Yielded(outcome) ==
    [raised |-> outcome.raised,
     status |-> outcome.status,
     next_states |-> IF outcome.raised THEN EmptyDict ELSE outcome.next_component_states,
     component_states |-> outcome.component_states,
     write_batch |-> outcome.values_to_write_external]

\* C22: one tick on the same snapshot, previous states and external snapshot
\* yields the same next states, the same merged component states and the same
\* write batch for every permutation of the component ids as execution order.
C22_TickIsOrderIndependent ==
    tick_result # None =>
        \A order \in Orders(Range(tick_in.sim.execution_order)) :
            Yielded(TickOutcome([tick_in EXCEPT !.sim.execution_order = order]))
                = Yielded(tick_result)

\* C22 happens: the heater ran before the actuator it drives and changed its
\* temperature in the tick, and the tick with the two swapped yields the same
C22_Witness ==
    /\ Ticked
    /\ DelayTick
    /\ tick_in.sim.execution_order = <<1, 2>>
    /\ PreviousTemperature = Num(10)
    /\ tick_result.component_states[1] = ("temperature" :> Num(20))
    /\ TickOutcome([tick_in EXCEPT !.sim.execution_order = <<2, 1>>]) = tick_result

----------------------------------------------------------------------------
(* Properties of the Heater kernel *)

HeaterTick == tick_in \in HeaterTickInputs
HeaterTicked == HeaterTick /\ Ticked
Configured(key, default) == GetOr(tick_in.sim.components[1].config, key, Num(default)).num
Ambient == Configured("ambient_temp", DefaultAmbientTemp)
HeatingRate == Configured("heating_rate", DefaultHeatingRate)
CoolingRate == Configured("cooling_rate", DefaultCoolingRate)
\* the numeric setpoint input when there is one, the configured setpoint otherwise
SetpointInput == Get(GatherInputs(tick_in.sim, tick_in.simulation_mode, tick_in.external_inputs, 1), "setpoint")
EffectiveSetpoint == IF IsNum(SetpointInput) THEN SetpointInput.num ELSE Configured("setpoint", DefaultSetpoint)
\* the temperature before the tick: initial_temp on the first tick
FirstTick == "temperature" \notin DOMAIN tick_in.sim.component_states[1]
TemperatureBefore == IF FirstTick THEN Configured("initial_temp", Ambient) ELSE tick_in.sim.component_states[1]["temperature"].num
TemperatureAfter == tick_result.next_component_states[1]["temperature"].num

ReferenceStep(T, sp, ambient, heating_rate, cooling_rate) ==
    IF T < sp THEN Min(T + heating_rate, sp)
    ELSE IF T > sp THEN Max(T - cooling_rate, Max(ambient, sp))
    ELSE T

\* C23: the Heater kernel equals the reference step: below the setpoint the
\* temperature rises by heating_rate up to the setpoint, above it the temperature
\* falls by cooling_rate down to max(ambient, setpoint), at it the temperature
\* stays; the setpoint is the numeric input when present and the configured one
\* otherwise, and the temperature is initial_temp on the first tick.
C23_HeaterEqualsReferenceStep ==
    HeaterTick /\ tick_result # None =>
        /\ ~tick_result.raised
        /\ DOMAIN tick_result.next_component_states[1] = {"temperature"}
        /\ TemperatureAfter = ReferenceStep(TemperatureBefore, EffectiveSetpoint, Ambient,
                                            HeatingRate, CoolingRate)

\* C23 happens: a heater above an input setpoint that is above the ambient
\* temperature cooled down to that setpoint and not to the ambient temperature
C23_Witness ==
    /\ HeaterTicked
    /\ IsNum(SetpointInput)
    /\ ~FirstTick
    /\ TemperatureBefore > EffectiveSetpoint
    /\ EffectiveSetpoint > Ambient
    /\ TemperatureBefore - CoolingRate < EffectiveSetpoint
    /\ TemperatureAfter = EffectiveSetpoint

----------------------------------------------------------------------------
(* Properties of the bridge's endpoints *)

BridgeInitialized == bridge_out # None /\ AllHaveUrl /\ ~bridge_out.raised
SetupFailsPartWay(url) == SubscriptionFails(url) \/ MonitoringFails(url)
HasSession(url) == url \in DOMAIN bridge_out.service.opcua_clients
HasSubscription(url) == url \in DOMAIN bridge_out.service.opcua_subscriptions
Mapped(binding) ==
    /\ binding.address \in DOMAIN bridge_out.service.node_id_to_binding_id_map
    /\ bridge_out.service.node_id_to_binding_id_map[binding.address] = binding.id

ReadBindings == {b \in Range(bridge_in.bindings) : b.direction = "read"}
\* the node of the binding is in a data-change subscription: one made by this
\* initialization, or the one a reused session already had
Monitored(binding) ==
    /\ HasSubscription(binding.endpoint_url)
    /\ \/ Reused(binding.endpoint_url)
       \/ /\ binding.id \in bridge_in.env.nodes
          /\ binding.endpoint_url \in bridge_in.env.data_change

----------------------------------------------------------------------------
(* Properties of the cache of latest values *)

CachedBindings == {b \in Range(CacheBindings) : b.direction = "read"}
\* the callbacks delivered before position n for the node that the reverse map
\* gives to the binding
DeliveredFor(binding, n) ==
    {k \in 1..n :
        /\ callbacks[k].node = binding.address
        /\ binding.address \in DOMAIN communication_service.node_id_to_binding_id_map}
LastDeliveredFor(binding, n) ==
    callbacks[CHOOSE k \in DeliveredFor(binding, n) : \A j \in DeliveredFor(binding, n) : j <= k].val
LatestWins(values, n) ==
    /\ DOMAIN values = {b.id : b \in {c \in CachedBindings : DeliveredFor(c, n) # {}}}
    /\ \A b \in CachedBindings :
           DeliveredFor(b, n) # {} => values[b.id] = LastDeliveredFor(b, n)

\* C26: under any interleaving of subscription callbacks and step-loop reads,
\* the map returned by a read holds for each binding exactly the value of the
\* last callback delivered for it before the read, and no entry if there was
\* none; callbacks delivered after the read do not alter the returned map; a
\* callback for an unmapped node leaves the latest values unchanged.
C26_LatestWins ==
    /\ LatestWins(communication_service.binding_values, Len(callbacks))
    /\ returned # None => LatestWins(returned.values, returned.position)

\* C26 happens: a read returned the second of two values delivered for binding
\* 1, a callback for an unmapped node had come before it, and a third value
\* for binding 1 came after the read
C26_Witness ==
    /\ returned # None
    /\ returned.position = 3
    /\ Len(callbacks) = 4
    /\ callbacks[1] = [node |-> ReadA.address, val |-> Num(0)]
    /\ callbacks[2].node = "ns=2;s=Old"
    /\ callbacks[3] = [node |-> ReadA.address, val |-> Num(42)]
    /\ callbacks[4] = [node |-> ReadA.address, val |-> None]
    /\ returned.values = (1 :> Num(42))
    /\ communication_service.binding_values = (1 :> None)

----------------------------------------------------------------------------
(* Properties of the FMU teardown *)

CallsOn(comp_id) == SelectSeq(teardown_out.calls, LAMBDA c : c.comp_id = comp_id)

\* C27: on every exit path, for every FMU instance that was instantiated,
\* terminate is called and then freeInstance, exactly once each; an error raised
\* while tearing one down, terminate raising included, does not propagate and
\* does not prevent terminate and freeInstance of that or of any other instance.
C27_TeardownIsComplete ==
    teardown_out # None =>
        /\ ~teardown_out.propagated
        /\ \A comp_id \in Range(teardown_in.fmu_instances) :
               CallsOn(comp_id) = <<Call("terminate", comp_id), Call("freeInstance", comp_id)>>

----------------------------------------------------------------------------
(* Properties of the tie-breaking of the scheduler *)

\* Kahn's algorithm with a FIFO queue that starts with the components of
\* in-degree 0 in snapshot order
KahnInSnapshotOrder(components, connections) ==
    LET component_ids == ComponentIds(components)
        g == BuildGraph(connections, 1, component_ids,
                        [c \in component_ids |-> <<>>], [c \in component_ids |-> 0])
        queue == SelectSeq(SnapshotOrder(components), LAMBDA c : g.in_degree[c] = 0)
        r == Kahn(queue, <<>>, g.adj, g.in_degree)
    IN IF Len(r.sorted_order) # Cardinality(component_ids)
       THEN SnapshotOrder(components)
       ELSE r.sorted_order

\* C28: the execution order is the result of Kahn's algorithm with a FIFO queue
\* whose initial contents are the in-degree-0 components in snapshot order; for
\* a snapshot with no connections it is the snapshot order of the components,
\* whatever the numeric order of their ids.
C28_TiesBrokenInSnapshotOrder ==
    Scheduled =>
        /\ sched_out.order = KahnInSnapshotOrder(sched_in.components, sched_in.connections)
        /\ sched_in.connections = <<>> => sched_out.order = SnapshotOrder(sched_in.components)

----------------------------------------------------------------------------
(* Properties of the direction of a Heater step *)

Distance(a, b) == IF a >= b THEN a - b ELSE b - a

\* C29: a Heater step never moves the temperature away from its effective
\* setpoint: the distance to the setpoint does not grow, the heating branch
\* never lowers the temperature and the cooling branch never raises it, also
\* when the temperature starts below ambient with the setpoint below it.
C29_HeaterNeverMovesAway ==
    (HeaterTicked /\ HeatingRate >= 0 /\ CoolingRate >= 0) =>
        /\ Distance(TemperatureAfter, EffectiveSetpoint)
               <= Distance(TemperatureBefore, EffectiveSetpoint)
        /\ TemperatureBefore < EffectiveSetpoint => TemperatureAfter >= TemperatureBefore
        /\ TemperatureBefore > EffectiveSetpoint => TemperatureAfter <= TemperatureBefore

----------------------------------------------------------------------------
(* Properties of the sessions of the bridge *)

Recorded(c) == \E url \in DOMAIN communication_service.opcua_clients : communication_service.opcua_clients[url] = c

====
